---- MODULE Spec2Model ----
(***************************************************************************)
(* Model of the Firebase -> InfluxDB bridge (src/src/main.py): the cursor  *)
(* initialisation (local file, InfluxDB recovery, fresh start) and the     *)
(* telemetry polling loop, together with the environment they run in: the  *)
(* append-only Firebase source, the batching InfluxDB write API, the       *)
(* durable cursor file and process crashes followed by a restart; and of    *)
(* the Firebase Storage image poller (src/src/image_poller.py): its thread, *)
(* its per-view scan of the bucket and the write of the image points.      *)
(***************************************************************************)
EXTENDS Integers, FiniteSets, Sequences, TLC

\* ------------------------------------------------------------- bounds ----
\* Number of push keys the source hands out in one behaviour.
MaxKey == 3
\* limit_to_first(100) / limit_to_last(100) of the polling loop, scaled down
\* so that a page can be full.
PageSize == 2
\* Number of blob names a (sensor, view) prefix can hold.
MaxBlob == 2
\* Length of the strings a device sends that are enumerated in full.
MaxLen == 3
\* Number of times a normalizer call is repeated on the same arguments.
MaxCalls == 2
\* Records at the source when the bridge is started (startup resolution).
MaxStart == 2

\* ---------------------------------------------------------- constants ----
\* sensor_config.yaml, "sensors:" section: the configured sensors in file
\* order, each with its "enabled" entry ("absent": the sensor has none) and
\* the track keys f"{sensor_id}/{view_name}" of its image_paths. The file
\* exists (the legacy fallback of load_sensor_config is not taken).
all_sensors ==
    << [id |-> "s1", enabled |-> "true",   views |-> <<"s1/front">>],
       [id |-> "s2", enabled |-> "true",   views |-> <<"s2/front">>],
       [id |-> "s3", enabled |-> "false",  views |-> <<"s3/front">>],
       [id |-> "s4", enabled |-> "absent", views |-> <<>>] >>
ConfiguredIds == {all_sensors[i].id : i \in 1..Len(all_sensors)}

\* Mutant of IsEnabled: a sensor is enabled unless its flag says otherwise.
IsEnabledByDefault(meta) == meta.enabled # "false"

\* meta.get("enabled", False)
IsEnabled(meta) == meta.enabled = "true"

\* load_sensor_config: "enabled = {sid: meta for sid, meta in
\* all_sensors.items() if meta.get("enabled", False)}".
sensor_configs == SelectSeq(all_sensors, IsEnabled)

\* SENSORS = list(sensor_configs.keys()): the enabled sensors, in order.
SENSORS == [i \in 1..Len(sensor_configs) |-> sensor_configs[i].id]
SensorIds == {SENSORS[i] : i \in 1..Len(SENSORS)}

\* Python None (a cursor "no history yet", JSON null in the state file).
None == 0
\* The sensor has no entry in a dict (cursors, saved_state, the state file).
Absent == -1

\* Shapes of a source record, as far as the polling loop tells them apart:
\*   "ok"   a dict that clean_sensor_data turns into a Point
\*   "bad"  a record the loop appends no point for: it is not a dict
\*          (isinstance fails), or clean_sensor_data returns None for it
\*          (e.g. a battery value float() cannot parse)
Kinds == {"ok", "bad"}

VARIABLES
    log,          \* the source: log[k] is the record with push key k
    file,         \* src/bridge_state.json: sensor -> cursor, Absent = no entry
    sink,         \* push keys of the sensor_reading points InfluxDB stores
    sinkLatest,   \* per sensor: fb_key of last() over range(start: -30d)
    inflight,     \* points handed to the batching write API, not yet flushed
    pc,           \* "down", "init", "poll"
    idx,          \* position in SENSORS of the sensor handled next
    saved_state,  \* the state file as loaded at startup
    cursors,      \* in-memory cursors, Absent = not yet resolved
    resolvedBy,   \* per sensor: how the cursor was resolved in this run
    startCursor,  \* per sensor: cursor resolved at startup of this run
    written,      \* keys whose point write_api.write accepted in this run
    dup,          \* a key was handed to write_api.write twice in this run
    store,        \* the storage bucket: store[t][n] is the blob n of track t
    mpc,          \* image-poller thread: "unstarted", "init", "scan",
                  \*   "write", "returned"
    midx,         \* position in TRACKS of the (sensor, view) handled next
    _seen_blobs,  \* track key -> blob names already ingested
    new_points,   \* new_points of the view iteration under way (or last one)
    made_public,  \* blobs make_public() succeeded on in the latest scan
    imgPoints,    \* sensor_image points write_api.write accepted
    missing,      \* settings main() needs that the environment lacks
    call,         \* the normalizer call under examination (NoCall: none)
    ret           \* what the call returned or raised, each time it was made

vars == <<log, file, sink, sinkLatest, inflight, pc, idx, saved_state,
          cursors, resolvedBy, startCursor, written, dup,
          store, mpc, midx, _seen_blobs, new_points, made_public,
          imgPoints, missing, call, ret>>

\* The state the image poller works on: the bucket, the image points it has
\* written, and its thread with the seen-set.
mediaEnv == <<store, imgPoints>>
mediaProc == <<mpc, midx, _seen_blobs, new_points, made_public>>
mediaVars == <<store, imgPoints, mpc, midx, _seen_blobs, new_points,
               made_public>>
\* The state the telemetry side works on.
telemetryVars == <<log, file, sink, sinkLatest, inflight, pc, idx,
                   saved_state, cursors, resolvedBy, startCursor, written,
                   dup>>

\* The settings of the deployment, and the normalizer call examined on its
\* own; neither loop touches them.
configVars == <<missing>>
normVars == <<call, ret>>
restVars == <<missing, call, ret>>

sinkVars == <<sink, sinkLatest, inflight>>
histVars == <<resolvedBy, startCursor, written, dup>>
procVars == <<pc, idx, saved_state, cursors, resolvedBy, startCursor,
              written, dup>>

\* ------------------------------------------------------------ helpers ----
Max(S) == CHOOSE x \in S : \A y \in S : y <= x

AllKeys == 1..Len(log)
SensorOf(k) == log[k].sensor
\* db.reference(f"/{sensor}"): the push keys of one sensor group.
Keys(s) == {k \in AllKeys : log[k].sensor = s}

\* A dict without entries. Entries can only be those of configured sensors
\* (a state file may hold one of a sensor that was enabled in the past).
NoEntries == [s \in ConfiguredIds |-> Absent]

\* resolvedBy of a sensor the initialisation has not reached. Once reached
\* it is the branch that set the cursor: "file" (priority 1), "sink"
\* (priority 2), "source" (priority 3, fetch returned) or "source_error"
\* (priority 3, fetch raised).
Unresolved == "none"

\* "for sensor_id, cfg in sensor_configs.items(): for view_name, view_cfg in
\* image_paths.items()": the track keys f"{sensor_id}/{view_name}", in order.
RECURSIVE TracksOf(_)
TracksOf(cfgs) ==
    IF cfgs = <<>> THEN <<>> ELSE Head(cfgs).views \o TracksOf(Tail(cfgs))
TRACKS == TracksOf(sensor_configs)
TrackKeys == {TRACKS[i] : i \in 1..Len(TRACKS)}
\* The prefixes of every configured view, enabled or not: the bucket holds
\* what the cameras upload.
ConfiguredTracks == TracksOf(all_sensors)
ConfiguredTrackKeys ==
    {ConfiguredTracks[i] : i \in 1..Len(ConfiguredTracks)}
\* Blob names under the prefix of one view.
Names == 1..MaxBlob

\* What the scan of a view can tell about a blob name:
\*   "image"   passes the filters; _get_blob_timestamp returns a time
\*   "raises"  passes the filters; _get_blob_timestamp raises for it (the
\*             view's timestamp_regex does not compile, or a capture group
\*             that did not take part makes float()/int() raise TypeError)
\*   "other"   a directory marker (name ends with "/") or a basename the
\*             filename_pattern does not match (see blob_name)
BlobKinds == {"image", "raises", "other"}
NoBlob == "absent"
NoBlobs == [t \in ConfiguredTrackKeys |-> [n \in Names |-> NoBlob]]
NoneSeen == [t \in TrackKeys |-> {}]

\* ------------------------------------------------- the Firebase queries ----
start_at(S, k) == {j \in S : j >= k}
limit_to_first(S, n) == {k \in S : Cardinality({j \in S : j < k}) < n}

\* Mutant of limit_to_last: the query returns the oldest n keys.
limit_to_lastOldest(S, n) == {k \in S : Cardinality({j \in S : j < k}) < n}

limit_to_last(S, n) == {k \in S : Cardinality({j \in S : j > k}) < n}

\* Mutant of Snapshot: the query forgets start_at(last_key).
SnapshotNoStartAt(s, last_key) ==
    IF last_key # None
    THEN limit_to_first(Keys(s), PageSize)
    ELSE limit_to_last(Keys(s), PageSize)

\* The page the polling loop requests for a sensor with cursor last_key.
Snapshot(s, last_key) ==
    IF last_key # None
    THEN limit_to_first(start_at(Keys(s), last_key), PageSize)
    ELSE limit_to_last(Keys(s), PageSize)

\* ------------------------------------------------------ normalisation ----
\* "if isinstance(record, dict): pt = clean_sensor_data(...); if pt: ...":
\* the record of key k adds a point to the batch.
YieldsPoint(k) == log[k].kind = "ok"

\* "if len(snapshot) == 1 and last_key in snapshot: continue", and the
\* outer "if snapshot and isinstance(snapshot, dict)".
NothingNew(snapshot, last_key) ==
    \/ snapshot = {}
    \/ Cardinality(snapshot) = 1 /\ last_key \in snapshot

\* Mutant of Processed: the loop does not skip the cursor record.
ProcessedWithCursor(snapshot, last_key) == snapshot

\* Keys the for loop does not skip as "the cursor itself".
Processed(snapshot, last_key) == {k \in snapshot : k # last_key}

\* The points list after the for loop over sorted(snapshot.keys()).
Points(snapshot, last_key) ==
    {k \in Processed(snapshot, last_key) : YieldsPoint(k)}

\* Mutant of NewLastKey: the cursor advances by one record per cycle.
NewLastKeyOneStep(snapshot, last_key) ==
    IF Processed(snapshot, last_key) = {} THEN last_key
    ELSE CHOOSE k \in Processed(snapshot, last_key) :
             \A j \in Processed(snapshot, last_key) : k <= j

\* new_last_key after the for loop.
NewLastKey(snapshot, last_key) ==
    IF Processed(snapshot, last_key) = {} THEN last_key
    ELSE Max(Processed(snapshot, last_key))

\* ------------------------------------------------------------- Init ----
\* Before the first start: no record at the source, no state file, an empty
\* bucket. Records can arrive before the process starts.
TelemetryInit ==
    /\ log = <<>>
    /\ file = NoEntries
    /\ sink = {}
    /\ sinkLatest = [s \in SensorIds |-> None]
    /\ inflight = {}
    /\ pc = "down"
    /\ idx = 1
    /\ saved_state = NoEntries
    /\ cursors = NoEntries
    /\ resolvedBy = [s \in SensorIds |-> Unresolved]
    /\ startCursor = [s \in SensorIds |-> Absent]
    /\ written = {}
    /\ dup = FALSE

\* The image poller before its thread exists: an empty bucket, the module
\* level "_seen_blobs = {}", nothing written.
MediaIdle ==
    /\ store = NoBlobs
    /\ imgPoints = {}
    /\ mpc = "unstarted"
    /\ midx = 1
    /\ _seen_blobs = NoneSeen
    /\ new_points = {}
    /\ made_public = {}

\* Every setting main() checks is there.
Deployed == missing = {}

\* No normalizer call is examined.
NoCall == [fn |-> "none"]
NormIdle == call = NoCall /\ ret = <<>>

Init == TelemetryInit /\ MediaIdle /\ Deployed /\ NormIdle

\* ------------------------------------------------------ environment ----
\* A device pushes a record: the source issues the next push key.
Push(s, kind) ==
    /\ Len(log) < MaxKey
    /\ log' = Append(log, [sensor |-> s, kind |-> kind])
    /\ UNCHANGED file
    /\ UNCHANGED sinkVars
    /\ UNCHANGED procVars
    /\ UNCHANGED mediaVars
    /\ UNCHANGED restVars

\* The InfluxDB batching writer flushes one point (batch_size=1): the point
\* is stored. It becomes the result of last() when its time is the latest
\* in the query window (record times come from the device).
FlushOk(k, latest) ==
    /\ k \in inflight
    /\ inflight' = inflight \ {k}
    /\ sink' = sink \cup {k}
    /\ sinkLatest' = IF latest
                     THEN [sinkLatest EXCEPT ![SensorOf(k)] = k]
                     ELSE sinkLatest
    /\ UNCHANGED <<log, file>>
    /\ UNCHANGED procVars
    /\ UNCHANGED mediaVars
    /\ UNCHANGED restVars

\* The batching writer gives up on a point (retries exhausted, or the
\* process died with the point still queued): the error goes to the
\* writer's log, never to the caller of write_api.write.
FlushFail(k) ==
    /\ k \in inflight
    /\ inflight' = inflight \ {k}
    /\ UNCHANGED <<log, file, sink, sinkLatest>>
    /\ UNCHANGED procVars
    /\ UNCHANGED mediaVars
    /\ UNCHANGED restVars

\* Time passes: the points of a sensor fall out of range(start: -30d).
Expire(s) ==
    /\ sinkLatest[s] # None
    /\ sinkLatest' = [sinkLatest EXCEPT ![s] = None]
    /\ UNCHANGED <<log, file, sink, inflight>>
    /\ UNCHANGED procVars
    /\ UNCHANGED mediaVars
    /\ UNCHANGED restVars

\* The memory of a process that died.
ProcessGone ==
    /\ pc' = "down"
    /\ idx' = 1
    /\ saved_state' = NoEntries
    /\ cursors' = NoEntries
    /\ resolvedBy' = [s \in SensorIds |-> Unresolved]
    /\ startCursor' = [s \in SensorIds |-> Absent]
    /\ written' = {}
    /\ dup' = FALSE
    /\ mpc' = "unstarted"           \* the daemon thread dies with it
    /\ midx' = 1
    /\ _seen_blobs' = NoneSeen
    /\ new_points' = {}
    /\ made_public' = {}
    /\ UNCHANGED mediaEnv
    /\ UNCHANGED restVars

\* The process dies. The state file survives, or is lost with the
\* deployment (fileLost). Points still queued in the writer complete or
\* are lost (FlushOk / FlushFail) before the next start.
Crash(fileLost) ==
    /\ pc \in {"init", "poll"}
    /\ ProcessGone
    /\ file' = IF fileLost THEN NoEntries ELSE file
    /\ UNCHANGED <<log, sink, sinkLatest, inflight>>

\* ---------------------------------------------------------- startup ----
\* The content of a state file that json.load cannot parse or open()
\* cannot read: every entry of the file has this value.
Unparsable == -2
Unreadable == [s \in ConfiguredIds |-> Unparsable]

\* Mutant of load_state_from_file: what is in the file is taken as it is.
load_state_from_fileUnchecked == file

\* load_state_from_file: the file's entries; a missing file gives {}, and
\* so does one that cannot be read ("except Exception", then "return {}").
load_state_from_file == IF file = Unreadable THEN NoEntries ELSE file

\* How a call of save_state ends:
\*   "ok"        the file holds the map
\*   "unopened"  open(STATE_FILE, 'w') raised: the file keeps its content
\*   "torn"      json.dump raised after open() truncated the file: what is
\*               left does not parse, load_state_from_file reads it as {}
\* In the last two the exception is logged and not raised.
SaveOutcomes == {"ok", "unopened", "torn"}

\* Mutant of save_state: only the entries the file already has are
\* rewritten.
save_stateKnownEntries(cursors_data, outcome) ==
    IF outcome = "ok"
    THEN [s \in ConfiguredIds |->
             IF file[s] # Absent THEN cursors_data[s] ELSE Absent]
    ELSE IF outcome = "unopened" THEN file
    ELSE NoEntries

\* save_state(cursors_data): the file is rewritten with the whole map.
save_state(cursors_data, outcome) ==
    IF outcome = "ok" THEN cursors_data
    ELSE IF outcome = "unopened" THEN file
    ELSE NoEntries

\* The settings main() cannot run without: the InfluxDB token, bucket and
\* organisation (environment variables) and the Firebase service-account
\* key file.
ConfigKeys == {"INFLUX_TOKEN", "INFLUX_BUCKET", "INFLUX_ORG",
               "SERVICE_ACCOUNT_KEY"}

\* Mutant of ConfigError: "For dev purposes, continuing might fail, but
\* let's warn": main() logs the error and goes on.
ConfigErrorWarnsOnly ==
    /\ pc = "down"
    /\ missing # {}
    /\ inflight = {}
    /\ pc' = "init"
    /\ idx' = 1
    /\ saved_state' = file
    /\ UNCHANGED <<log, file, cursors, missing, call, ret>>
    /\ UNCHANGED <<resolvedBy, startCursor, written, dup>>
    /\ UNCHANGED <<sink, sinkLatest, inflight>>
    /\ UNCHANGED mediaVars

\* main(), "if not INFLUX_TOKEN: ... return", the same for INFLUX_BUCKET and
\* INFLUX_ORG, and "if not os.path.exists(SERVICE_ACCOUNT_KEY): ... return":
\* the error is logged and main() returns, the process ends. Between the
\* checks main() only constructs the InfluxDB client and its write API.
ConfigError ==
    /\ pc = "down"
    /\ missing # {}
    /\ pc' = "exited"
    /\ UNCHANGED <<log, file, idx, saved_state, cursors>>
    /\ UNCHANGED histVars
    /\ UNCHANGED sinkVars
    /\ UNCHANGED mediaVars
    /\ UNCHANGED restVars

\* main() up to "Initialize cursors": every check passes, the state file is
\* loaded.
Start ==
    /\ pc = "down"
    /\ missing = {}
    /\ inflight = {}
    /\ pc' = "init"
    /\ idx' = 1
    /\ saved_state' = load_state_from_file
    /\ UNCHANGED <<log, file, cursors>>
    /\ UNCHANGED histVars
    /\ UNCHANGED sinkVars
    /\ UNCHANGED mediaVars
    /\ UNCHANGED restVars

\* fetch_last_key_from_influx: the value of the last fb_key point in the
\* window; None when there is none or when the query raises.
fetch_last_key_from_influx(s, queryOk) ==
    IF queryOk THEN sinkLatest[s] ELSE None

\* order_by_key().limit_to_last(1) at the source: its newest key, None
\* when the group is empty.
NewestKey(s) ==
    IF Keys(s) # {} THEN Max(limit_to_last(Keys(s), 1)) ELSE None

\* Mutant of FreshStartKey: limit_to_first(1) instead of limit_to_last(1).
FreshStartKeyOldest(s, fetchOk) ==
    IF fetchOk /\ Keys(s) # {} THEN Max(limit_to_first(Keys(s), 1)) ELSE None

\* Priority 3: the newest key; None when the source has no record or when
\* the fetch raises.
FreshStartKey(s, fetchOk) == IF fetchOk THEN NewestKey(s) ELSE None

\* Mutant of ResolveTier: InfluxDB is asked before the state file.
ResolveTierSinkFirst(s, queryOk) ==
    IF fetch_last_key_from_influx(s, queryOk) # None THEN "sink"
    ELSE IF saved_state[s] # Absent THEN "file"
    ELSE "source"

\* The tier that resolves sensor s.
ResolveTier(s, queryOk) ==
    IF saved_state[s] # Absent THEN "file"
    ELSE IF fetch_last_key_from_influx(s, queryOk) # None THEN "sink"
    ELSE "source"

\* Mutant of ResolveCursor: the key InfluxDB returned is not adopted.
ResolveCursorDropsSinkKey(s, queryOk, fetchOk) ==
    IF ResolveTier(s, queryOk) = "file" THEN saved_state[s]
    ELSE FreshStartKey(s, fetchOk)

\* The cursor the initialisation loop gives sensor s.
ResolveCursor(s, queryOk, fetchOk) ==
    IF ResolveTier(s, queryOk) = "file" THEN saved_state[s]
    ELSE IF ResolveTier(s, queryOk) = "sink"
         THEN fetch_last_key_from_influx(s, queryOk)
         ELSE FreshStartKey(s, fetchOk)

\* The branch of the initialisation that sets the cursor of sensor s.
ResolveBranch(s, queryOk, fetchOk) ==
    IF ResolveTier(s, queryOk) = "source" /\ ~fetchOk THEN "source_error"
    ELSE ResolveTier(s, queryOk)

\* One iteration of "for sensor in SENSORS" of the initialisation.
Resolve(queryOk, fetchOk) ==
    /\ pc = "init"
    /\ idx <= Len(SENSORS)
    /\ LET s == SENSORS[idx]
           c == ResolveCursor(s, queryOk, fetchOk)
       IN /\ cursors' = [cursors EXCEPT ![s] = c]
          /\ startCursor' = [startCursor EXCEPT ![s] = c]
          /\ resolvedBy' = [resolvedBy EXCEPT ![s] =
                               ResolveBranch(s, queryOk, fetchOk)]
    /\ idx' = idx + 1
    /\ UNCHANGED <<log, file, pc, saved_state, written, dup>>
    /\ UNCHANGED sinkVars
    /\ UNCHANGED mediaVars
    /\ UNCHANGED restVars

\* Mutant of InitialSave: the loop is entered as soon as the first sensor
\* is resolved.
InitialSaveEarly(outcome) ==
    /\ pc = "init"
    /\ idx > 1
    /\ file' = save_state(cursors, outcome)
    /\ pc' = "poll"
    /\ idx' = 1
    /\ saved_state' = NoEntries
    /\ UNCHANGED <<log, cursors>>
    /\ UNCHANGED histVars
    /\ UNCHANGED sinkVars
    /\ UNCHANGED mediaVars
    /\ UNCHANGED restVars

\* "Initial save" and entry into the polling loop.
InitialSave(outcome) ==
    /\ pc = "init"
    /\ idx = Len(SENSORS) + 1
    /\ file' = save_state(cursors, outcome)
    /\ pc' = "poll"
    /\ idx' = 1
    /\ saved_state' = NoEntries      \* never read again
    /\ UNCHANGED <<log, cursors>>
    /\ UNCHANGED histVars
    /\ UNCHANGED sinkVars
    /\ UNCHANGED mediaVars
    /\ UNCHANGED restVars

\* ----------------------------------------------------- polling loop ----
\* The next sensor of "for sensor in SENSORS"; after the last one the loop
\* sleeps and starts over.
NextIdx == IF idx = Len(SENSORS) THEN 1 ELSE idx + 1

\* The sensor the loop handles next, and the page it gets for it.
Sensor == SENSORS[idx]
Page == Snapshot(Sensor, cursors[Sensor])

\* Mutant of HasPointsIn: the cycle goes on to the write and the save as
\* soon as the page holds a well-formed record.
HasPointsInAnyRecord(page) == \E k \in page : YieldsPoint(k)

\* The cycle writes: the page has new keys and gives at least one point.
HasPointsIn(page) ==
    /\ ~NothingNew(page, cursors[Sensor])
    /\ Points(page, cursors[Sensor]) # {}
HasPoints == HasPointsIn(Page)

\* Mutant of PollReadError: nothing catches the exception, which leaves
\* main() and ends the process.
PollReadErrorEscapes ==
    /\ pc = "poll"
    /\ ProcessGone
    /\ UNCHANGED <<log, file, sink, sinkLatest, inflight>>

\* query.get() raises: the except clause logs, the loop goes on.
PollReadError ==
    /\ pc = "poll"
    /\ idx' = NextIdx
    /\ UNCHANGED <<log, file, pc, saved_state, cursors>>
    /\ UNCHANGED histVars
    /\ UNCHANGED sinkVars
    /\ UNCHANGED mediaVars
    /\ UNCHANGED restVars

\* query.get() returns something that is not a dict (a list, a scalar):
\* "if snapshot and isinstance(snapshot, dict)" fails, nothing is done.
PollNotMapping ==
    /\ pc = "poll"
    /\ idx' = NextIdx
    /\ UNCHANGED <<log, file, pc, saved_state, cursors>>
    /\ UNCHANGED histVars
    /\ UNCHANGED sinkVars
    /\ UNCHANGED mediaVars
    /\ UNCHANGED restVars

\* Mutant of PollPage: the cursor map is built anew with the entry of the
\* sensor, the cursors of the other sensors are dropped.
PollPageDropsOthers(page, outcome) ==
    /\ pc = "poll"
    /\ IF HasPointsIn(page)
       THEN /\ inflight' = inflight \cup Points(page, cursors[Sensor])
            /\ written' = written \cup Points(page, cursors[Sensor])
            /\ dup' = (dup \/ Points(page, cursors[Sensor]) \cap written # {})
            /\ cursors' = [NoEntries EXCEPT
                              ![Sensor] = NewLastKey(page, cursors[Sensor])]
            /\ file' = save_state(cursors', outcome)
       ELSE /\ outcome = "ok"
            /\ UNCHANGED <<inflight, written, dup, cursors, file>>
    /\ idx' = NextIdx
    /\ UNCHANGED <<log, pc, saved_state, resolvedBy, startCursor,
                   sink, sinkLatest>>
    /\ UNCHANGED mediaVars
    /\ UNCHANGED restVars

\* One iteration of the polling loop in which query.get() returns the given
\* page (a dict or nothing) and write_api.write does not raise.
PollPage(page, outcome) ==
    /\ pc = "poll"
    /\ IF HasPointsIn(page)
       THEN /\ inflight' = inflight \cup Points(page, cursors[Sensor])
            /\ written' = written \cup Points(page, cursors[Sensor])
            /\ dup' = (dup \/ Points(page, cursors[Sensor]) \cap written # {})
            /\ cursors' = [cursors EXCEPT
                              ![Sensor] = NewLastKey(page, cursors[Sensor])]
            /\ file' = save_state(cursors', outcome)
       ELSE /\ outcome = "ok"
            /\ UNCHANGED <<inflight, written, dup, cursors, file>>
    /\ idx' = NextIdx
    /\ UNCHANGED <<log, pc, saved_state, resolvedBy, startCursor,
                   sink, sinkLatest>>
    /\ UNCHANGED mediaVars
    /\ UNCHANGED restVars

\* The same, with the page the source returns for the sensor's cursor.
PollOk(outcome) == PollPage(Page, outcome)

\* write_api.write raises: nothing is queued, the cursor is not touched.
PollWriteRaise ==
    /\ pc = "poll"
    /\ HasPoints
    /\ idx' = NextIdx
    /\ UNCHANGED <<log, file, pc, saved_state, cursors>>
    /\ UNCHANGED histVars
    /\ UNCHANGED sinkVars
    /\ UNCHANGED mediaVars
    /\ UNCHANGED restVars

\* The process dies between write_api.write and the cursor update.
CrashInCycle(fileLost) ==
    /\ pc = "poll"
    /\ HasPoints
    /\ inflight' = inflight \cup Points(Page, cursors[Sensor])
    /\ ProcessGone
    /\ file' = IF fileLost THEN NoEntries ELSE file
    /\ UNCHANGED <<log, sink, sinkLatest>>

\* ----------------------------------------------------- image poller ----
\* The track key the poller handles next, and the one after it; after the
\* last one _poll_once returns, the thread sleeps and starts a new cycle.
Track == TRACKS[midx]
NextTrack == IF midx = Len(TRACKS) THEN 1 ELSE midx + 1

\* prefixes_to_scan of a view with date_folders (the default): today's
\* folder, then yesterday's. Odd blob names lie in today's folder.
Prefixes == {"today", "yesterday"}
PrefixOf(n) == IF n % 2 = 1 THEN "today" ELSE "yesterday"

\* The order in which one scan meets the blobs: prefix by prefix, each
\* listing in name order.
ScanBefore(a, b) ==
    \/ PrefixOf(a) = "today" /\ PrefixOf(b) = "yesterday"
    \/ PrefixOf(a) = PrefixOf(b) /\ a < b

\* str.lower() of the characters of a name.
lower(c) ==
    LET upper == <<"A", "B", "C", "D", "G", "J", "N", "P">>
        small == <<"a", "b", "c", "d", "g", "j", "n", "p">>
    IN [i \in 1..Len(c) |->
           IF \E u \in 1..Len(upper) : upper[u] = c[i]
           THEN small[CHOOSE u \in 1..Len(upper) : upper[u] = c[i]]
           ELSE c[i]]

\* os.path.basename: what follows the last "/".
RECURSIVE basename(_)
basename(c) ==
    IF \E i \in 1..Len(c) : c[i] = "/" THEN basename(Tail(c)) ELSE c

\* fnmatch.fnmatch on a POSIX system, for patterns of literal characters,
\* "*" and "?": the whole name has to match.
RECURSIVE fnmatch(_, _)
fnmatch(name, pat) ==
    IF pat = <<>> THEN name = <<>>
    ELSE IF Head(pat) = "*"
    THEN \/ fnmatch(name, Tail(pat))
         \/ name # <<>> /\ fnmatch(Tail(name), pat)
    ELSE /\ name # <<>>
         /\ Head(pat) = "?" \/ Head(pat) = Head(name)
         /\ fnmatch(Tail(name), Tail(pat))

\* view_cfg.get("filename_pattern", "*.jpg"): the first view has the
\* default, the others are configured with "*.JPG".
filename_pattern(t) ==
    IF t = ConfiguredTracks[1] THEN <<"*", ".", "j", "p", "g">>
    ELSE <<"*", ".", "J", "P", "G">>

\* blob.name of the blob n of a kind: images are named in upper case under
\* today's prefix and in lower case under yesterday's; the blobs of kind
\* "other" are the directory marker of today's prefix and a .png file
\* under yesterday's.
blob_name(n, kind) ==
    CASE kind = "image" ->
           IF PrefixOf(n) = "today" THEN <<"s", "/", "A", ".", "J", "P", "G">>
           ELSE <<"s", "/", "b", ".", "j", "p", "g">>
      [] kind = "raises" -> <<"s", "/", "c", ".", "j", "p", "g">>
      [] kind = "other" ->
           IF PrefixOf(n) = "today" THEN <<"s", "/">>
           ELSE <<"s", "/", "d", ".", "p", "n", "g">>

\* Mutant of PassesFilter: every listed blob is taken.
PassesFilterAll(name, pattern) == name = name

\* "if blob_name.endswith("/"): continue" and "if not fnmatch.fnmatch(
\* basename.lower(), filename_pattern.lower()): continue".
PassesFilter(name, pattern) ==
    /\ name[Len(name)] # "/"
    /\ fnmatch(lower(basename(name)), lower(pattern))

\* The outcome of the two tests for every blob a view can list.
Kept ==
    [t \in ConfiguredTrackKeys, n \in Names, kind \in BlobKinds |->
        PassesFilter(blob_name(n, kind), filename_pattern(t))]

\* list_blobs over the prefixes whose listing does not raise.
Listed(t, listFail) ==
    {n \in Names : store[t][n] # NoBlob /\ PrefixOf(n) \notin listFail}

\* Mutant of Candidates: the seen-set is not consulted.
CandidatesIgnoreSeen(t, listFail) ==
    {n \in Listed(t, listFail) :
        Kept[t, n, store[t][n]]}

\* The blobs that pass "skip directories", "skip already-seen blobs" and
\* the filename filter.
Candidates(t, listFail) ==
    {n \in Listed(t, listFail) :
        /\ n \notin _seen_blobs[t]
        /\ Kept[t, n, store[t][n]]}

\* The candidates for which blob.make_public() returns.
Publishable(t, listFail, pubFail) == Candidates(t, listFail) \ pubFail

\* The published candidates for which _get_blob_timestamp raises.
Raisers(t, listFail, pubFail) ==
    {n \in Publishable(t, listFail, pubFail) : store[t][n] = "raises"}

\* The first of them the scan meets.
FirstRaiser(t, listFail, pubFail) ==
    CHOOSE r \in Raisers(t, listFail, pubFail) :
        \A n \in Raisers(t, listFail, pubFail) : n = r \/ ScanBefore(r, n)

\* The Point object built for blob n. It is not a blob name: names are
\* positive, Point objects are represented by negative numbers.
PointFor(n) == 0 - n
NameOf(pt) == 0 - pt

\* A blob lands in the bucket under the prefix of a view.
Upload(t, n, kind) ==
    /\ store[t][n] = NoBlob
    /\ store' = [store EXCEPT ![t][n] = kind]
    /\ UNCHANGED imgPoints
    /\ UNCHANGED mediaProc
    /\ UNCHANGED telemetryVars
    /\ UNCHANGED restVars

\* start_image_poller_thread: the daemon thread is created and started.
StartImagePoller ==
    /\ mpc = "unstarted"
    /\ mpc' = "init"
    /\ UNCHANGED <<midx, _seen_blobs, new_points, made_public>>
    /\ UNCHANGED mediaEnv
    /\ UNCHANGED telemetryVars
    /\ UNCHANGED restVars

\* poll_sensor_images: storage.bucket(bucket_name) returns, the thread
\* enters "while True".
BucketOk ==
    /\ mpc = "init"
    /\ mpc' = "scan"
    /\ midx' = 1
    /\ UNCHANGED <<_seen_blobs, new_points, made_public>>
    /\ UNCHANGED mediaEnv
    /\ UNCHANGED telemetryVars
    /\ UNCHANGED restVars

\* poll_sensor_images: storage.bucket raises, the error is logged and the
\* function returns: the thread ends.
BucketFail ==
    /\ mpc = "init"
    /\ mpc' = "returned"
    /\ UNCHANGED <<midx, _seen_blobs, new_points, made_public>>
    /\ UNCHANGED mediaEnv
    /\ UNCHANGED telemetryVars
    /\ UNCHANGED restVars

\* Mutant of MediaScan: a candidate is put in the seen-set before
\* make_public is tried.
MediaScanSeenFirst(listFail, pubFail) ==
    /\ mpc = "scan"
    /\ Raisers(Track, listFail, pubFail) = {}
    /\ made_public' = Publishable(Track, listFail, pubFail)
    /\ new_points' = {PointFor(n) : n \in Publishable(Track, listFail, pubFail)}
    /\ _seen_blobs' = [_seen_blobs EXCEPT
                          ![Track] = @ \cup Candidates(Track, listFail)]
    /\ IF new_points' # {}
       THEN mpc' = "write" /\ midx' = midx
       ELSE mpc' = "scan" /\ midx' = NextTrack
    /\ UNCHANGED mediaEnv
    /\ UNCHANGED telemetryVars
    /\ UNCHANGED restVars

\* _poll_once, one (sensor, view), up to "Write to InfluxDB": the listings
\* of listFail raise, make_public raises for the blobs of pubFail, and no
\* timestamp extraction raises. Without new points the loop goes on to the
\* next view.
MediaScan(listFail, pubFail) ==
    /\ mpc = "scan"
    /\ Raisers(Track, listFail, pubFail) = {}
    /\ made_public' = Publishable(Track, listFail, pubFail)
    /\ new_points' = {PointFor(n) : n \in Publishable(Track, listFail, pubFail)}
    /\ _seen_blobs' = [_seen_blobs EXCEPT
                          ![Track] = @ \cup Publishable(Track, listFail, pubFail)]
    /\ IF new_points' # {}
       THEN mpc' = "write" /\ midx' = midx
       ELSE mpc' = "scan" /\ midx' = NextTrack
    /\ UNCHANGED mediaEnv
    /\ UNCHANGED telemetryVars
    /\ UNCHANGED restVars

\* The same, when _get_blob_timestamp raises for a blob: the blobs met
\* before it are handled as usual, the blob itself is made public, then
\* the exception leaves _poll_once (its new_points with it) and is caught
\* in poll_sensor_images, which sleeps and starts the next cycle.
MediaScanRaises(listFail, pubFail) ==
    /\ mpc = "scan"
    /\ Raisers(Track, listFail, pubFail) # {}
    /\ LET r == FirstRaiser(Track, listFail, pubFail)
           done == {n \in Publishable(Track, listFail, pubFail) :
                       ScanBefore(n, r)}
       IN /\ made_public' = done \cup {r}
          /\ _seen_blobs' = [_seen_blobs EXCEPT ![Track] = @ \cup done]
    /\ new_points' = {}
    /\ mpc' = "scan"
    /\ midx' = 1
    /\ UNCHANGED mediaEnv
    /\ UNCHANGED telemetryVars
    /\ UNCHANGED restVars

\* Mutant of MediaWrite: the poller keeps its progress in the file of the
\* cursors, which it rewrites with its own content.
MediaWritePersists ==
    /\ mpc = "write"
    /\ imgPoints' = imgPoints \cup {<<Track, NameOf(pt)>> : pt \in new_points}
    /\ new_points' = {}
    /\ made_public' = {}
    /\ mpc' = "scan"
    /\ midx' = NextTrack
    /\ file' = NoEntries
    /\ UNCHANGED <<store, _seen_blobs>>
    /\ UNCHANGED <<log, sink, sinkLatest, inflight, pc, idx, saved_state,
                   cursors, resolvedBy, startCursor, written, dup>>
    /\ UNCHANGED restVars

\* write_api.write(record=new_points) returns.
MediaWrite ==
    /\ mpc = "write"
    /\ imgPoints' = imgPoints \cup {<<Track, NameOf(pt)>> : pt \in new_points}
    /\ new_points' = {}
    /\ made_public' = {}
    /\ mpc' = "scan"
    /\ midx' = NextTrack
    /\ UNCHANGED <<store, _seen_blobs>>
    /\ UNCHANGED telemetryVars
    /\ UNCHANGED restVars

\* Mutant of MediaWriteRaise: the names of the blobs of the failed batch
\* are taken out of the seen-set.
MediaWriteRaiseForgets ==
    /\ mpc = "write"
    /\ _seen_blobs' = [_seen_blobs EXCEPT
                          ![Track] = @ \ {NameOf(pt) : pt \in new_points}]
    /\ new_points' = {}
    /\ made_public' = {}
    /\ mpc' = "scan"
    /\ midx' = NextTrack
    /\ UNCHANGED mediaEnv
    /\ UNCHANGED telemetryVars
    /\ UNCHANGED restVars

\* write_api.write raises: "for pt in new_points:
\* _seen_blobs[track_key].discard(pt)".
MediaWriteRaise ==
    /\ mpc = "write"
    /\ _seen_blobs' = [_seen_blobs EXCEPT ![Track] = @ \ new_points]
    /\ new_points' = {}
    /\ made_public' = {}
    /\ mpc' = "scan"
    /\ midx' = NextTrack
    /\ UNCHANGED mediaEnv
    /\ UNCHANGED telemetryVars
    /\ UNCHANGED restVars

\* ------------------------------------------------------------- Next ----
\* The bridge with a writable state file, in an environment that pushes
\* records, flushes or drops queued points, ages the bucket and kills the
\* process.
Next ==
    \/ \E s \in SensorIds, kind \in Kinds : Push(s, kind)
    \/ \E k \in 1..MaxKey, latest \in BOOLEAN : FlushOk(k, latest)
    \/ \E k \in 1..MaxKey : FlushFail(k)
    \/ \E s \in SensorIds : Expire(s)
    \/ \E fileLost \in BOOLEAN : Crash(fileLost)
    \/ Start
    \/ \E queryOk \in BOOLEAN, fetchOk \in BOOLEAN : Resolve(queryOk, fetchOk)
    \/ InitialSave("ok")
    \/ PollReadError
    \/ PollNotMapping
    \/ PollOk("ok")
    \/ PollWriteRaise
    \/ \E fileLost \in BOOLEAN : CrashInCycle(fileLost)

Spec == Init /\ [][Next]_vars

\* One process run that never dies and in which every source read and every
\* sink write succeeds. The startup steps and the loop's iterations are the
\* only steps of the single control thread, so each is taken when it stays
\* enabled (the loop sleeps one second and goes on).
NextLive ==
    \/ \E s \in SensorIds, kind \in Kinds : Push(s, kind)
    \/ \E k \in 1..MaxKey, latest \in BOOLEAN : FlushOk(k, latest)
    \/ Start
    \/ Resolve(TRUE, TRUE)
    \/ InitialSave("ok")
    \/ PollOk("ok")

LiveSpec ==
    /\ Init
    /\ [][NextLive]_vars
    /\ WF_vars(Start)
    /\ WF_vars(Resolve(TRUE, TRUE))
    /\ WF_vars(InitialSave("ok"))
    /\ WF_vars(PollOk("ok"))
    /\ \A k \in 1..MaxKey : WF_vars(\E latest \in BOOLEAN : FlushOk(k, latest))

\* The control thread of one process run that never dies, in which every
\* call the startup and the loop make can fail: the InfluxDB query, the
\* Firebase reads, write_api.write and the write of the state file.
\* Whatever the outcome, the thread goes on to its next step. (What the
\* batching writer does with the queued points is left out: no step of
\* this thread depends on it.)
PollStep ==
    \/ PollReadError
    \/ PollNotMapping
    \/ \E outcome \in SaveOutcomes : PollOk(outcome)
    \/ PollWriteRaise

NextFault ==
    \/ \E s \in SensorIds, kind \in Kinds : Push(s, kind)
    \/ Start
    \/ \E queryOk \in BOOLEAN, fetchOk \in BOOLEAN : Resolve(queryOk, fetchOk)
    \/ \E outcome \in SaveOutcomes : InitialSave(outcome)
    \/ PollStep

FaultSpec ==
    /\ Init
    /\ [][NextFault]_vars
    /\ WF_vars(Start)
    /\ WF_vars(\E queryOk \in BOOLEAN, fetchOk \in BOOLEAN :
                   Resolve(queryOk, fetchOk))
    /\ WF_vars(\E outcome \in SaveOutcomes : InitialSave(outcome))
    /\ WF_vars(PollStep)

\* The image poller thread, once start_image_poller_thread is called, with
\* blobs arriving in the bucket.
MediaNext ==
    \/ \E t \in TrackKeys, n \in Names, kind \in BlobKinds : Upload(t, n, kind)
    \/ StartImagePoller
    \/ BucketOk
    \/ BucketFail
    \/ \E listFail \in SUBSET Prefixes :
           \E pubFail \in SUBSET Candidates(Track, listFail) :
               MediaScan(listFail, pubFail)
    \/ \E listFail \in SUBSET Prefixes :
           \E pubFail \in SUBSET Candidates(Track, listFail) :
               MediaScanRaises(listFail, pubFail)
    \/ MediaWrite
    \/ MediaWriteRaise

MediaSpec == Init /\ [][MediaNext]_vars

\* The steps of the telemetry thread and those of the image-poller thread.
TelemetryStep ==
    \/ Start
    \/ Resolve(TRUE, TRUE)
    \/ InitialSave("ok")
    \/ PollOk("ok")

MediaStep ==
    \/ StartImagePoller
    \/ BucketOk
    \/ \E listFail \in SUBSET Prefixes :
           \E pubFail \in SUBSET Candidates(Track, listFail) :
               MediaScan(listFail, pubFail)
    \/ MediaWrite
    \/ MediaWriteRaise

\* A process in which main() runs and start_image_poller_thread has been
\* called: the steps of the two threads interleave in any order, while
\* well-formed records arrive for the sensors and images for the first
\* view. (What the batching writer does with the queued points is left
\* out: no step of either thread depends on it.)
BothNext ==
    \/ \E s \in SensorIds : Push(s, "ok")
    \/ \E n \in Names : Upload(TRACKS[1], n, "image")
    \/ TelemetryStep
    \/ MediaStep

BothSpec == Init /\ [][BothNext]_vars

\* The deployments a start can find: up to two records at the source, for
\* each enabled sensor the last key of the sink (or none), and a state file
\* that is absent, unreadable, or holds a key or null for some of the
\* sensors.
SourceLogs ==
    UNION {[1..n -> [sensor : SensorIds, kind : Kinds]] : n \in 0..MaxStart}
StateFiles ==
    {Unreadable} \cup
    {f \in [ConfiguredIds -> {Absent, None} \cup 1..MaxStart] :
        \A s \in ConfiguredIds :
            /\ s \notin SensorIds => f[s] = Absent
            /\ f[s] \in 1..MaxStart => f[s] \in Keys(s)}
ResolveInit ==
    /\ log \in SourceLogs
    /\ sinkLatest \in [SensorIds -> {None} \cup 1..MaxStart]
    /\ \A s \in SensorIds : sinkLatest[s] # None => sinkLatest[s] \in Keys(s)
    /\ sink = {sinkLatest[s] : s \in SensorIds} \ {None}
    /\ file \in StateFiles
    /\ inflight = {}
    /\ pc = "down"
    /\ idx = 1
    /\ saved_state = NoEntries
    /\ cursors = NoEntries
    /\ resolvedBy = [s \in SensorIds |-> Unresolved]
    /\ startCursor = [s \in SensorIds |-> Absent]
    /\ written = {}
    /\ dup = FALSE
    /\ MediaIdle
    /\ Deployed
    /\ NormIdle

\* One start in such a deployment, in which every call of the startup and
\* of the loop can fail. The steps are those of the single control thread,
\* so each is taken when it stays enabled.
ResolveNext ==
    \/ Start
    \/ \E queryOk \in BOOLEAN, fetchOk \in BOOLEAN : Resolve(queryOk, fetchOk)
    \/ \E outcome \in SaveOutcomes : InitialSave(outcome)
    \/ PollStep

ResolveSpec ==
    /\ ResolveInit
    /\ [][ResolveNext]_vars
    /\ WF_vars(Start)
    /\ WF_vars(\E queryOk \in BOOLEAN, fetchOk \in BOOLEAN :
                   Resolve(queryOk, fetchOk))
    /\ WF_vars(\E outcome \in SaveOutcomes : InitialSave(outcome))
    /\ WF_vars(PollStep)

\* The configured sensors load_sensor_config leaves out, and their views.
DisabledIds == ConfiguredIds \ SensorIds
DisabledTrackKeys == ConfiguredTrackKeys \ TrackKeys

\* A deployment as the operator set it up: any of the settings may be
\* missing, and the state file may hold the cursor of a sensor that was
\* enabled in an earlier deployment.
ConfigInit ==
    /\ missing \in SUBSET ConfigKeys
    /\ file \in {NoEntries} \cup {[NoEntries EXCEPT ![s] = 1] : s \in DisabledIds}
    /\ log = <<>>
    /\ sink = {}
    /\ sinkLatest = [s \in SensorIds |-> None]
    /\ inflight = {}
    /\ pc = "down"
    /\ idx = 1
    /\ saved_state = NoEntries
    /\ cursors = NoEntries
    /\ resolvedBy = [s \in SensorIds |-> Unresolved]
    /\ startCursor = [s \in SensorIds |-> Absent]
    /\ written = {}
    /\ dup = FALSE
    /\ MediaIdle
    /\ NormIdle

\* One start of the bridge in such a deployment, with the image poller
\* started by main(): devices push records for the first enabled sensor
\* and for the sensors that are not enabled, cameras upload images under
\* the views of the sensors that are not enabled (the views of the enabled
\* ones stay empty, so that the poller has nothing to write).
ConfigNext ==
    \/ \E s \in {SENSORS[1]} \cup DisabledIds : Push(s, "ok")
    \/ \E t \in DisabledTrackKeys, n \in Names : Upload(t, n, "image")
    \/ ConfigError
    \/ TelemetryStep
    \/ pc \in {"init", "poll"} /\ StartImagePoller
    \/ BucketOk
    \/ \E listFail \in SUBSET Prefixes : MediaScan(listFail, {})

ConfigSpec == ConfigInit /\ [][ConfigNext]_vars

\* ------------------------------------------------------- normalizer ----
\* Python values, as far as the normalizer tells them apart. A value is a
\* record whose field t is its type:
\*   "none"           None (JSON null)
\*   "bool"           b
\*   "int", "float"   the number (-1)^neg * (hi * 10^8 + lo + f / 10^6),
\*                    0 <= lo < 10^8, 0 <= f < 10^6 (f = 0 for an int)
\*   "inf", "nan"     the floats float("inf") and float("nan")
\*   "str"            c, its characters
\*   "list"           c, the characters of its str() form
\*   "dict"           items, a function from its keys to values
\*   "datetime"       the UTC time sec seconds and us microseconds after
\*                    the epoch, sec a non-negative number as above
\*   "point"          an InfluxDB Point
\*   "raise"          not a value: the exception e leaves the call
PyNone == [t |-> "none"]
PyBool(b) == [t |-> "bool", b |-> b]
PyNum(type, neg, hi, lo, f) ==
    [t |-> type, neg |-> neg /\ (hi # 0 \/ lo # 0 \/ f # 0),
     hi |-> hi, lo |-> lo, f |-> f]
PyInt(i) == PyNum("int", i < 0, 0, IF i < 0 THEN 0 - i ELSE i, 0)
PyFloat(neg, i, f) == PyNum("float", neg, 0, i, f)
PyInf == [t |-> "inf"]
PyNaN == [t |-> "nan"]
PyStr(c) == [t |-> "str", c |-> c]
PyList(c) == [t |-> "list", c |-> c]
PyDict(items) == [t |-> "dict", items |-> items]
Raise(e) == [t |-> "raise", e |-> e]
IsRaise(v) == v.t = "raise"

Digits == <<"0", "1", "2", "3", "4", "5", "6", "7", "8", "9">>
IsDigit(ch) == \E d \in 1..10 : Digits[d] = ch
DigitValue(ch) == (CHOOSE d \in 1..10 : Digits[d] = ch) - 1

\* The number a run of decimal digits denotes, as <<hi, lo>>.
RECURSIVE DigitsValue(_)
DigitsValue(run) ==
    IF run = <<>> THEN <<0, 0>>
    ELSE LET front == DigitsValue(SubSeq(run, 1, Len(run) - 1))
             low == front[2] * 10 + DigitValue(run[Len(run)])
         IN <<front[1] * 10 + low \div 10^8, low % 10^8>>

\* The first six decimals of a run of digits after the point, in
\* millionths.
RECURSIVE Millionths(_, _)
Millionths(run, places) ==
    IF places = 0 THEN 0
    ELSE (IF run = <<>> THEN 0 ELSE DigitValue(Head(run)) * 10^(places - 1))
         + Millionths(IF run = <<>> THEN <<>> ELSE Tail(run), places - 1)

\* re.search(r'\d+', s): the first maximal run of digits of s, <<>> when
\* there is no match.
RECURSIVE LeadingDigits(_)
LeadingDigits(c) ==
    IF c = <<>> \/ ~IsDigit(Head(c)) THEN <<>>
    ELSE <<Head(c)>> \o LeadingDigits(Tail(c))
RECURSIVE re_search_digits(_)
re_search_digits(c) ==
    IF c = <<>> THEN <<>>
    ELSE IF IsDigit(Head(c)) THEN LeadingDigits(c)
    ELSE re_search_digits(Tail(c))

\* int(match.group()) of a run of digits.
IntOfDigits(run) ==
    PyNum("int", FALSE, DigitsValue(run)[1], DigitsValue(run)[2], 0)

\* float(s) of a string: an optional sign, then "inf", "nan", or digits
\* with at most one point and a digit on one side of it; anything else is
\* a ValueError. (Exponents, blanks and underscores are not modelled: no
\* string of the model has them.)
PointAt(c) == IF \E i \in 1..Len(c) : c[i] = "."
              THEN CHOOSE i \in 1..Len(c) : c[i] = "."
              ELSE Len(c) + 1
AllDigits(c) == \A i \in 1..Len(c) : IsDigit(c[i])
UnsignedFloat(c, neg) ==
    LET whole == SubSeq(c, 1, PointAt(c) - 1)
        frac == SubSeq(c, PointAt(c) + 1, Len(c))
    IN IF c = <<"i", "n", "f">> THEN PyInf
       ELSE IF c = <<"n", "a", "n">> THEN PyNaN
       ELSE IF AllDigits(whole) /\ AllDigits(frac) /\ Len(whole) + Len(frac) > 0
       THEN PyNum("float", neg, DigitsValue(whole)[1], DigitsValue(whole)[2],
                  Millionths(frac, 6))
       ELSE Raise("ValueError")
StrToFloat(c) ==
    IF c # <<>> /\ Head(c) \in {"-", "+"}
    THEN UnsignedFloat(Tail(c), Head(c) = "-")
    ELSE UnsignedFloat(c, FALSE)

\* float(x)
float(x) ==
    CASE x.t = "int" -> [x EXCEPT !.t = "float"]
      [] x.t \in {"float", "inf", "nan"} -> x
      [] x.t = "bool" -> PyFloat(FALSE, IF x.b THEN 1 ELSE 0, 0)
      [] x.t = "str" -> StrToFloat(x.c)
      [] OTHER -> Raise("TypeError")

\* int(x): a number (bool is an int) is truncated towards zero; a string
\* is an optional sign and digits, anything else in it is a ValueError.
int(x) ==
    CASE x.t \in {"int", "float"} -> PyNum("int", x.neg, x.hi, x.lo, 0)
      [] x.t = "str" ->
           LET signed == x.c # <<>> /\ Head(x.c) \in {"-", "+"}
               run == IF signed THEN Tail(x.c) ELSE x.c
           IN IF run # <<>> /\ AllDigits(run)
              THEN PyNum("int", signed /\ Head(x.c) = "-",
                         DigitsValue(run)[1], DigitsValue(run)[2], 0)
              ELSE Raise("ValueError")
      [] x.t = "bool" -> PyInt(IF x.b THEN 1 ELSE 0)
      [] x.t = "inf" -> Raise("OverflowError")
      [] x.t = "nan" -> Raise("ValueError")
      [] x.t = "raise" -> x
      [] OTHER -> Raise("TypeError")

IsNumber(x) == x.t \in {"int", "float", "bool", "inf", "nan"}

\* data.get(name) of a dict; AttributeError when data has no get (a str, a
\* list, a number, None).
DictGet(data, name, default) ==
    IF data.t # "dict" THEN Raise("AttributeError")
    ELSE IF name \in DOMAIN data.items THEN data.items[name]
    ELSE default

_DISTANCE_FALLBACK_FIELDS ==
    <<"dist_cm", "distance_cm", "ultrasound", "ultrasound_cm", "level",
      "level_cm", "distance", "water_level", "distance_from_sensor">>
_BATTERY_FALLBACK_FIELDS ==
    <<"bat_volt", "battery_voltage", "battery", "voltage">>
_SOLAR_FALLBACK_FIELDS == <<"solar_volt", "solar_voltage", "solar">>

\* A configured field name the configuration does not give
\* (fields_cfg.get(...) is None).
NoName == ""

\* "for fb in fallbacks: val = data.get(fb); if val is not None: return
\* val" and the final "return None".
RECURSIVE FirstNonNull(_, _)
FirstNonNull(data, fallbacks) ==
    IF fallbacks = <<>> THEN PyNone
    ELSE LET val == DictGet(data, Head(fallbacks), PyNone)
         IN IF val # PyNone THEN val
            ELSE FirstNonNull(data, Tail(fallbacks))

\* Mutant of _get_field: a configured name the record lacks falls back to
\* the chain.
_get_fieldThenChain(data, field_name, fallbacks) ==
    IF field_name # NoName /\ DictGet(data, field_name, PyNone) # PyNone
    THEN DictGet(data, field_name, PyNone)
    ELSE FirstNonNull(data, fallbacks)

\* _get_field(data, field_name, fallbacks)
_get_field(data, field_name, fallbacks) ==
    IF field_name # NoName
    THEN DictGet(data, field_name, PyNone)
    ELSE FirstNonNull(data, fallbacks)

\* _parse_distance(raw_dist, encoding). str() of a str or a list gives its
\* characters (no field of the model holds a dict).
_parse_distance(raw_dist, encoding) ==
    LET numeric == int(float(raw_dist))
        text == IF raw_dist.t \in {"str", "list"} THEN raw_dist.c ELSE <<>>
        match == re_search_digits(text)
        extracted == IF match # <<>> THEN IntOfDigits(match) ELSE PyInt(0)
    IN IF raw_dist = PyNone THEN PyInt(0)
       ELSE IF encoding = "numeric"
       THEN IF IsRaise(numeric) /\ numeric.e \in {"ValueError", "TypeError"}
            THEN PyInt(0)
            ELSE numeric
       ELSE IF encoding = "string"
       THEN IF IsNumber(raw_dist) THEN int(raw_dist) ELSE extracted
       ELSE IF IsNumber(raw_dist) THEN int(raw_dist)
       ELSE IF raw_dist.t = "str" THEN extracted
       ELSE PyInt(0)

\* 1e11 of "if ts > 1e11", as <<hi, lo>>.
EpochAutoThreshold == <<1000, 0>>

\* Mutant of ExceedsThreshold: the threshold itself counts as milliseconds.
ExceedsThresholdInclusive(ts) ==
    CASE ts.t = "inf" -> TRUE
      [] ts.t = "nan" -> FALSE
      [] OTHER -> /\ ~ts.neg
                  /\ \/ ts.hi > EpochAutoThreshold[1]
                     \/ /\ ts.hi = EpochAutoThreshold[1]
                        /\ ts.lo >= EpochAutoThreshold[2]

\* ts > 1e11
ExceedsThreshold(ts) ==
    CASE ts.t = "inf" -> TRUE
      [] ts.t = "nan" -> FALSE
      [] OTHER -> /\ ~ts.neg
                  /\ \/ ts.hi > EpochAutoThreshold[1]
                     \/ /\ ts.hi = EpochAutoThreshold[1]
                        /\ \/ ts.lo > EpochAutoThreshold[2]
                           \/ ts.lo = EpochAutoThreshold[2] /\ ts.f > 0

\* ts / 1000.0, to the microsecond.
DivideBy1000(ts) ==
    IF ts.t \in {"inf", "nan"} THEN ts
    ELSE PyNum("float", ts.neg, ts.hi \div 1000,
               (ts.hi % 1000) * 10^5 + ts.lo \div 1000,
               (ts.lo % 1000) * 1000 + ts.f \div 1000)

\* The timestamp of datetime.max (9999-12-31T23:59:59), as <<hi, lo>>.
MaxTimestamp == <<2534, 2300799>>

\* datetime.datetime.fromtimestamp(ts, utc): ValueError for NaN and for a
\* time after year 9999, OverflowError for infinity. (Times before year 1
\* and beyond the platform's time_t are outside the values of the model.)
fromtimestamp(ts) ==
    CASE ts.t = "nan" -> Raise("ValueError")
      [] ts.t = "inf" -> Raise("OverflowError")
      [] OTHER ->
           IF ~ts.neg /\ (\/ ts.hi > MaxTimestamp[1]
                          \/ ts.hi = MaxTimestamp[1] /\ ts.lo > MaxTimestamp[2])
           THEN Raise("ValueError")
           ELSE [t |-> "datetime", neg |-> ts.neg, hi |-> ts.hi,
                 lo |-> ts.lo, us |-> ts.f]

\* The readings of the clock: time.time() and datetime.now(utc) at tick n
\* (both readings of one call are taken at the same tick).
ClockEpoch == <<17, 0>>
time_time(n) == PyNum("float", FALSE, ClockEpoch[1], ClockEpoch[2] + n, 0)
datetime_now(n) == fromtimestamp(time_time(n))

\* The strptime patterns of the "iso" format, by shape: "d" is a digit.
\* (Fields are taken zero-padded and in range; the fraction has three or
\* six digits.)
Shape(c) == [i \in 1..Len(c) |-> IF IsDigit(c[i]) THEN "d" ELSE c[i]]
DateShape == <<"d", "d", "d", "d", "-", "d", "d", "-", "d", "d">>
TimeShape == <<"d", "d", ":", "d", "d", ":", "d", "d">>
IsoShapes ==
    LET plain == {DateShape \o <<sep>> \o TimeShape : sep \in {" ", "T"}}
    IN plain
       \cup {p \o <<".">> \o frac :
                p \in plain, frac \in {<<"d", "d", "d">>,
                                       <<"d", "d", "d", "d", "d", "d">>}}
       \cup {DateShape \o <<"T">> \o TimeShape \o <<"Z">>}

\* Mutant of _parse_timestamp: every error of fromtimestamp gives the
\* current time.
_parse_timestampCatchesAll(raw_ts, fmt, tick) ==
    LET now == datetime_now(tick)
        ts == float(raw_ts)
        scaled == IF fmt = "epoch_ms" THEN DivideBy1000(ts)
                  ELSE IF fmt = "epoch_auto" /\ ExceedsThreshold(ts)
                  THEN DivideBy1000(ts)
                  ELSE ts
        dt == fromtimestamp(scaled)
    IN IF raw_ts = PyNone THEN now
       ELSE IF fmt = "iso"
       THEN IF raw_ts.t = "str" /\ Shape(raw_ts.c) \in IsoShapes
            THEN [t |-> "datetime", text |-> raw_ts.c]
            ELSE now
       ELSE IF IsRaise(ts) THEN now
       ELSE IF IsRaise(dt) THEN now
       ELSE dt

\* _parse_timestamp(raw_ts, fmt), called at clock tick "tick". The time an
\* ISO string denotes is kept as its text.
_parse_timestamp(raw_ts, fmt, tick) ==
    LET now == datetime_now(tick)
        ts == float(raw_ts)
        scaled == IF fmt = "epoch_ms" THEN DivideBy1000(ts)
                  ELSE IF fmt = "epoch_auto" /\ ExceedsThreshold(ts)
                  THEN DivideBy1000(ts)
                  ELSE ts
        dt == fromtimestamp(scaled)
    IN IF raw_ts = PyNone THEN now
       ELSE IF fmt = "iso"
       THEN IF raw_ts.t = "str" /\ Shape(raw_ts.c) \in IsoShapes
            THEN [t |-> "datetime", text |-> raw_ts.c]
            ELSE now
       ELSE IF IsRaise(ts) THEN now
       ELSE IF IsRaise(dt) /\ dt.e \in {"OSError", "OverflowError"} THEN now
       ELSE dt

\* A dict of the configuration (sensor_cfg, its "fields"): a function from
\* its keys; "sensor_cfg or {}" makes None the same as the empty one.
NoConfig == <<>>
CfgGet(d, k, default) == IF k \in DOMAIN d THEN d[k] ELSE default

\* key.split('/') of a key given as its path elements and slashes.
RECURSIVE Split(_)
Split(c) ==
    IF \A i \in 1..Len(c) : c[i] # "/" THEN <<c>>
    ELSE LET at == CHOOSE i \in 1..Len(c) :
                      c[i] = "/" /\ \A j \in 1..(i - 1) : c[j] # "/"
         IN <<SubSeq(c, 1, at - 1)>> \o Split(SubSeq(c, at + 1, Len(c)))

\* The try block of clean_sensor_data: the point, or the exception that
\* leaves the block.
NormalizeBody(key, data, sensor_cfg, tick) ==
    LET fields_cfg == CfgGet(sensor_cfg, "fields", NoConfig)
        dist_field == CfgGet(fields_cfg, "distance", NoName)
        bat_field == CfgGet(fields_cfg, "battery", NoName)
        sol_field == CfgGet(fields_cfg, "solar", NoName)
        ts_field == CfgGet(fields_cfg, "timestamp", "timestamp")
        dist_encoding == CfgGet(sensor_cfg, "distance_encoding", "auto")
        ts_format == CfgGet(sensor_cfg, "timestamp_format", "epoch_auto")
        raw_dist == _get_field(data, dist_field, _DISTANCE_FALLBACK_FIELDS)
        raw_bat == _get_field(data, bat_field, _BATTERY_FALLBACK_FIELDS)
        raw_sol == _get_field(data, sol_field, _SOLAR_FALLBACK_FIELDS)
        raw_ts == DictGet(data, ts_field, time_time(tick))
        dist_cm == _parse_distance(raw_dist, dist_encoding)
        bat == IF raw_bat # PyNone THEN float(raw_bat)
               ELSE PyFloat(FALSE, 0, 0)
        sol == IF raw_sol # PyNone THEN float(raw_sol)
               ELSE PyFloat(FALSE, 0, 0)
        dt_obj == _parse_timestamp(raw_ts, ts_format, tick)
        parts == Split(key.c)
    IN IF key.t # "str" THEN Raise("TypeError")
       ELSE IF data.t # "dict" THEN Raise("AttributeError")
       ELSE IF IsRaise(dist_cm) THEN dist_cm
       ELSE IF IsRaise(bat) THEN bat
       ELSE IF IsRaise(sol) THEN sol
       ELSE IF IsRaise(dt_obj) THEN dt_obj
       ELSE [t |-> "point",
             sensor_id |-> IF Len(parts) > 1 THEN parts[2]
                           ELSE <<"unknown_sensor">>,
             dist_cm |-> dist_cm, bat_volt |-> bat, solar_volt |-> sol,
             fb_key |-> parts[Len(parts)], time |-> dt_obj]

\* Mutant of clean_sensor_data: no try around the body.
clean_sensor_dataNoTry(key, data, sensor_cfg, tick) ==
    NormalizeBody(key, data, sensor_cfg, tick)

\* clean_sensor_data(key, data, sensor_cfg), called at clock tick "tick":
\* "except Exception as e: logger.error(...); return None".
clean_sensor_data(key, data, sensor_cfg, tick) ==
    IF IsRaise(NormalizeBody(key, data, sensor_cfg, tick)) THEN PyNone
    ELSE NormalizeBody(key, data, sensor_cfg, tick)

\* ------------------------------------------------- image timestamps ----
\* What re.search(regex_pattern, filename) gives: Raise("re.error") for a
\* pattern that does not compile, PyNone when nothing matches, else a match
\* object with its groups, each a string, or None for a group that took no
\* part in the match.
Match(groups) == [t |-> "match", groups |-> groups]

\* The first exception in a sequence of evaluated arguments.
FirstRaise(c) == c[CHOOSE i \in 1..Len(c) :
                     IsRaise(c[i]) /\ \A j \in 1..(i - 1) : ~IsRaise(c[j])]

\* The days of a month of the proleptic Gregorian calendar.
DaysIn(y, mo) ==
    IF mo = 2
    THEN (IF y % 4 = 0 /\ (y % 100 # 0 \/ y % 400 = 0) THEN 29 ELSE 28)
    ELSE IF mo \in {4, 6, 9, 11} THEN 30 ELSE 31

\* datetime.datetime(year, month, day, hour, minute, second, tzinfo=utc)
\* of six evaluated arguments: ValueError for a component out of range.
datetime_datetime(c) ==
    IF \E i \in 1..6 : IsRaise(c[i]) THEN FirstRaise(c)
    ELSE LET v(i) == IF c[i].hi > 0 THEN 10^8
                     ELSE IF c[i].neg THEN 0 - c[i].lo ELSE c[i].lo
         IN IF /\ v(1) \in 1..9999
               /\ v(2) \in 1..12
               /\ v(3) \in 1..DaysIn(v(1), v(2))
               /\ v(4) \in 0..23
               /\ v(5) \in 0..59
               /\ v(6) \in 0..59
            THEN [t |-> "datetime", y |-> v(1), mo |-> v(2), d |-> v(3),
                  h |-> v(4), mi |-> v(5), s |-> v(6)]
            ELSE Raise("ValueError")

\* datetime.date.today(), as <<year, month, day>>.
Today == <<PyInt(2026), PyInt(2), PyInt(19)>>

\* "epoch_val > 1_000_000_000"
LooksLikeEpoch(epoch_val) ==
    \/ epoch_val.t = "inf"
    \/ /\ epoch_val.t = "float"
       /\ ~epoch_val.neg
       /\ \/ epoch_val.hi > 10
          \/ epoch_val.hi = 10 /\ (epoch_val.lo > 0 \/ epoch_val.f > 0)

\* The try block of _extract_timestamp_from_filename.
ExtractBody(groups, timestamp_format) ==
    LET epoch_val == float(groups[1])
        vals == [i \in 1..Len(groups) |-> int(groups[i])]
        midnight == <<PyInt(0), PyInt(0), PyInt(0)>>
    IN IF timestamp_format \in {"epoch_s", "epoch_ms"}
       THEN IF IsRaise(epoch_val) THEN epoch_val
            ELSE fromtimestamp(IF timestamp_format = "epoch_ms"
                               THEN DivideBy1000(epoch_val) ELSE epoch_val)
       ELSE IF Len(groups) >= 6 THEN datetime_datetime(SubSeq(vals, 1, 6))
       ELSE IF Len(groups) >= 3
       THEN IF \E i \in 1..Len(vals) : IsRaise(vals[i]) THEN FirstRaise(vals)
            ELSE IF vals[1].hi > 0 \/ (~vals[1].neg /\ vals[1].lo > 100)
            THEN datetime_datetime(SubSeq(vals, 1, 3) \o midnight)
            ELSE datetime_datetime(Today \o SubSeq(vals, 1, 3))
       ELSE IF IsRaise(epoch_val) THEN epoch_val
       ELSE IF LooksLikeEpoch(epoch_val) THEN fromtimestamp(epoch_val)
       ELSE PyNone

\* _extract_timestamp_from_filename, given what re.search returns or
\* raises for the pattern and the filename: "except (ValueError,
\* IndexError, OSError, OverflowError): return None".
_extract_timestamp_from_filename(match, timestamp_format) ==
    IF IsRaise(match) THEN match
    ELSE IF match = PyNone THEN PyNone
    ELSE IF match.groups = <<>> THEN PyNone
    ELSE LET dt == ExtractBody(match.groups, timestamp_format)
         IN IF IsRaise(dt) /\ dt.e \in {"ValueError", "IndexError", "OSError",
                                       "OverflowError"}
            THEN PyNone
            ELSE dt

\* _get_blob_timestamp of a blob with the given creation time (None when
\* the metadata has none); match is what re.search gives for the blob's
\* base name.
_get_blob_timestamp(blob, timestamp_source, timestamp_regex, timestamp_format, match, tick) ==
    LET ts == _extract_timestamp_from_filename(match, timestamp_format)
        named == /\ timestamp_source = "filename"
                 /\ timestamp_regex \notin {PyNone, PyStr(<<>>)}
    IN IF named /\ ts # PyNone THEN ts
       ELSE IF blob.time_created # PyNone THEN blob.time_created
       ELSE datetime_now(tick)

\* ---------------------------------------------- normalizer, examined ----
\* The strings of at most MaxLen characters over an alphabet with a letter,
\* two digits, a point and a minus sign.
Alphabet == {"R", "0", "2", ".", "-"}
RECURSIVE StringsUpTo(_)
StringsUpTo(n) ==
    IF n = 0 THEN {<<>>}
    ELSE StringsUpTo(n - 1)
         \cup {Append(c, ch) : c \in {d \in StringsUpTo(n - 1) : Len(d) = n - 1},
                               ch \in Alphabet}

\* Values a device can put in a field of a record (JSON scalars, lists).
SampleStrings ==
    {PyStr(c) : c \in StringsUpTo(MaxLen)}
    \cup {PyStr(<<"R", "0", "2", "3", "1">>), PyStr(<<"i", "n", "f">>),
          PyStr(<<"n", "a", "n">>), PyStr(<<"4", "2", ".", "9">>)}
SmallNumbers ==
    {PyInt(0), PyInt(42), PyInt(0 - 5), PyFloat(FALSE, 42, 900000),
     PyFloat(TRUE, 4, 500000), PyFloat(FALSE, 0, 500000)}
OtherValues ==
    {PyNone, PyBool(TRUE), PyBool(FALSE),
     PyList(<<"[", "1", "2", "]">>), PyList(<<"[", "]">>)}
Encodings == {"numeric", "string", "auto"}

\* Timestamps around the 1e11 threshold, of today in seconds and in
\* milliseconds, after year 9999 when read as seconds, and before 1970.
Timestamps ==
    {PyNum("int", FALSE, 999, 99999999, 0), PyNum("int", FALSE, 1000, 0, 0),
     PyNum("int", FALSE, 1000, 1, 0), PyNum("float", FALSE, 1000, 0, 500000),
     PyNum("float", FALSE, 1000, 0, 0), PyNum("int", FALSE, 17, 0, 0),
     PyNum("int", FALSE, 17000, 123, 0), PyNum("float", FALSE, 17, 0, 250000),
     PyNum("int", FALSE, 2600, 0, 0), PyInt(0 - 5), PyInt(0),
     PyStr(<<"1", "7", "0", "0", "0", "0", "0", "0", "0", "0">>),
     PyStr(<<"2", "0", "2", "6", "-", "0", "2", "-", "1", "9", " ",
             "1", "3", ":", "5", "5", ":", "2", "5">>)}
TimestampFormats == {"epoch_s", "epoch_ms", "epoch_auto", "iso"}

\* The ticks of the clock at which a call can be made.
Clock == 1..(MaxCalls + 1)

\* The calls examined.
ParseDistanceCalls ==
    [fn : {"_parse_distance"},
     raw_dist : SampleStrings \cup SmallNumbers \cup OtherValues,
     encoding : Encodings]
ParseTimestampCalls ==
    [fn : {"_parse_timestamp"},
     raw_ts : Timestamps \cup SampleStrings \cup OtherValues,
     fmt : TimestampFormats]

\* A record as a dict: the entries of a full assignment that are not
\* Missing.
Missing == [t |-> "missing"]
DictOf(full) ==
    PyDict([n \in {m \in DOMAIN full : full[m] # Missing} |-> full[n]])

\* Records with a distance under a custom name, under the first name of
\* the fallback chain and under a later one.
FieldRecords ==
    {DictOf(full) :
        full \in [lvl : {Missing, PyNone, PyInt(7), PyStr(<<"R", "7">>)},
                  dist_cm : {Missing, PyNone, PyInt(42), PyInt(0)},
                  level : {Missing, PyNone, PyInt(9)}]}
GetFieldCalls ==
    [fn : {"_get_field"}, data : FieldRecords,
     field_name : {NoName, "lvl", "depth"},
     fallbacks : {_DISTANCE_FALLBACK_FIELDS}]

\* Records of a sensor: every combination of a few values of each field.
SensorRecords ==
    {DictOf(full) :
        full \in [lvl : {Missing, PyNone, PyInt(7)},
                  dist_cm : {Missing, PyNone, PyInt(42),
                             PyFloat(FALSE, 42, 900000),
                             PyStr(<<"R", "0", "2", "3", "1">>),
                             PyStr(<<"R", "R">>), PyStr(<<"i", "n", "f">>),
                             PyList(<<"[", "1", "2", "]">>)},
                  level : {Missing, PyInt(9)},
                  bat_volt : {Missing, PyNone, PyFloat(FALSE, 3, 700000),
                              PyStr(<<"3", ".", "7">>), PyStr(<<"R", "R">>)},
                  solar_volt : {Missing, PyList(<<"[", "]">>)},
                  timestamp : {Missing, PyNone, PyNum("int", FALSE, 17, 0, 0),
                               PyNum("int", FALSE, 17000, 123, 0),
                               PyStr(<<"R", "R">>), PyStr(<<"n", "a", "n">>)}]}
\* What a source entry holds when it is not a record.
NonMappings == {PyNone, PyInt(42), PyStr(<<"R", "R">>), PyList(<<"[", "]">>)}
SensorConfigs ==
    {NoConfig,
     [fields |-> [distance |-> "lvl"]],
     [distance_encoding |-> "numeric"],
     [distance_encoding |-> "string", timestamp_format |-> "epoch_s"],
     [timestamp_format |-> "epoch_ms"],
     [timestamp_format |-> "iso"]}
RecordKeys == {PyStr(<<"/", "s1", "/", "k2">>), PyNone}
NormalizeCalls ==
    [fn : {"clean_sensor_data"}, key : RecordKeys,
     data : SensorRecords \cup NonMappings, sensor_cfg : SensorConfigs]

\* The state in which one of the calls is about to be made.
CallInit(calls) ==
    /\ call \in calls
    /\ ret = <<>>
    /\ TelemetryInit
    /\ MediaIdle
    /\ Deployed

\* The call is made, at clock tick "tick": ret receives what it returns or
\* raises. A call can be repeated at a later tick.
Returned(tick) ==
    CASE call.fn = "_get_field" ->
             _get_field(call.data, call.field_name, call.fallbacks)
      [] call.fn = "_parse_distance" ->
             _parse_distance(call.raw_dist, call.encoding)
      [] call.fn = "_parse_timestamp" ->
             _parse_timestamp(call.raw_ts, call.fmt, tick)
      [] call.fn = "clean_sensor_data" ->
             clean_sensor_data(call.key, call.data, call.sensor_cfg, tick)
      [] call.fn = "_get_blob_timestamp" ->
             _get_blob_timestamp(call.blob, call.timestamp_source,
                                 call.timestamp_regex, call.timestamp_format,
                                 call.match, tick)
MakeCall(tick) ==
    /\ call # NoCall
    /\ Len(ret) < MaxCalls
    /\ ret # <<>> => tick > ret[Len(ret)].tick
    /\ ret' = Append(ret, [tick |-> tick, out |-> Returned(tick)])
    /\ UNCHANGED <<call, missing>>
    /\ UNCHANGED telemetryVars
    /\ UNCHANGED mediaVars

CallNext == \E tick \in Clock : MakeCall(tick)

GetFieldSpec == CallInit(GetFieldCalls) /\ [][CallNext]_vars
ParseDistanceSpec == CallInit(ParseDistanceCalls) /\ [][CallNext]_vars
ParseTimestampSpec == CallInit(ParseTimestampCalls) /\ [][CallNext]_vars
NormalizeSpec == CallInit(NormalizeCalls) /\ [][CallNext]_vars

\* The matches examined: date and time components in and out of range, a
\* group that took no part, an epoch value at and around 10^9, a value that
\* is no number.
GroupOf(chars) == PyStr(chars)
DateGroups ==
    {<<GroupOf(y), GroupOf(mo), GroupOf(d)>> :
        y \in {<<"2", "0", "2", "6">>, <<"2", "0", "2", "4">>,
               <<"1", "0", "1">>, <<"1", "0", "0">>, <<"1", "3">>, <<"0">>},
        mo \in {<<"0", "2">>, <<"1", "3">>},
        d \in {<<"1", "9">>, <<"2", "9">>, <<"3", "0">>}}
    \cup {<<GroupOf(<<"2", "0", "2", "6">>), PyNone, GroupOf(<<"1", "9">>)>>}
TimeGroups ==
    {<<h, GroupOf(mi), s>> :
        h \in {GroupOf(<<"1", "3">>), GroupOf(<<"2", "4">>)},
        mi \in {<<"5", "5">>, <<"6", "0">>},
        s \in {GroupOf(<<"2", "5">>), PyNone}}
EpochGroups ==
    {<<GroupOf(<<"1", "7", "7", "1", "5", "1", "1", "5", "1", "8">>)>>,
     <<GroupOf(<<"1", "0", "0", "0", "0", "0", "0", "0", "0", "0">>)>>,
     <<GroupOf(<<"1", "0", "0", "0", "0", "0", "0", "0", "0", "1">>)>>,
     <<GroupOf(<<"1", "7", "7", "1", "5", "1", "1", "5", "1", "8", "0", "0",
                "0">>)>>,
     <<GroupOf(<<"9", "9", "9", "9", "9", "9", "9", "9", "9", "9", "9", "0",
                "0", "0">>)>>,
     <<GroupOf(<<"1", "7">>)>>, <<GroupOf(<<"R", "2">>)>>,
     <<GroupOf(<<"i", "n", "f">>)>>, <<PyNone>>}
Matches ==
    {Raise("re.error"), PyNone, Match(<<>>)}
    \cup {Match(g) : g \in EpochGroups}
    \cup {Match(g \o <<GroupOf(<<"R">>)>>) : g \in EpochGroups}
    \cup {Match(g) : g \in DateGroups}
    \cup {Match(SubSeq(g \o t, 1, n)) :
              g \in DateGroups, t \in TimeGroups, n \in 4..6}
Blobs == {[time_created |-> PyNone],
          [time_created |-> fromtimestamp(PyNum("float", FALSE, 17, 5, 0))]}
BlobTimestampCalls ==
    [fn : {"_get_blob_timestamp"}, blob : Blobs,
     timestamp_source : {"blob", "filename"},
     timestamp_regex : {PyNone, PyStr(<<>>), PyStr(<<"r", "e">>)},
     timestamp_format : {"", "epoch_s", "epoch_ms"},
     match : Matches]

BlobTimestampSpec == CallInit(BlobTimestampCalls) /\ [][CallNext]_vars

\* ------------------------------------------- a page of three records ----
\* The end-to-end scenario of one sensor: the source holds the records k,
\* a and b (push keys 1, 2, 3), the state file holds the cursor k. Record a
\* has no distance under any name and is otherwise well-formed, record b
\* is valid.
ScenarioSensor == SENSORS[1]
RecordsWithoutDistance ==
    {DictOf(full) :
        full \in [bat_volt : {Missing, PyNone, PyFloat(FALSE, 3, 700000),
                              PyStr(<<"3", ".", "7">>)},
                  solar_volt : {Missing, PyFloat(FALSE, 5, 100000)},
                  timestamp : {Missing, PyNone, PyNum("int", FALSE, 17, 0, 0)}]}
ValidRecords ==
    {DictOf(full) :
        full \in [dist_cm : {PyInt(42), PyFloat(FALSE, 42, 900000),
                             PyStr(<<"R", "0", "2", "3", "1">>)},
                  bat_volt : {PyFloat(FALSE, 3, 700000)},
                  solar_volt : {PyFloat(FALSE, 5, 100000)},
                  timestamp : {PyNum("int", FALSE, 17, 0, 0)}]}
Scenarios ==
    [fn : {"scenario"}, a : RecordsWithoutDistance, b : ValidRecords,
     sensor_cfg : {NoConfig, [distance_encoding |-> "numeric"],
                   [distance_encoding |-> "string",
                    timestamp_format |-> "epoch_s"]}]

\* f"/{sensor}/{key}" of the records a and b.
KeyA == PyStr(<<"/", ScenarioSensor, "/", "k2">>)
KeyB == PyStr(<<"/", ScenarioSensor, "/", "k3">>)

\* "pt = clean_sensor_data(...); if pt: points.append(pt)": what the loop
\* does with a record.
KindOf(key, data, sensor_cfg) ==
    IF \A tick \in Clock :
           clean_sensor_data(key, data, sensor_cfg, tick).t = "point"
    THEN "ok" ELSE "bad"

ScenarioInit ==
    /\ call \in Scenarios
    /\ ret = <<>>
    /\ log = << [sensor |-> ScenarioSensor, kind |-> "ok"],
                [sensor |-> ScenarioSensor,
                 kind |-> KindOf(KeyA, call.a, call.sensor_cfg)],
                [sensor |-> ScenarioSensor,
                 kind |-> KindOf(KeyB, call.b, call.sensor_cfg)] >>
    /\ file = [NoEntries EXCEPT ![ScenarioSensor] = 1]
    /\ sink = {1}
    /\ sinkLatest = [s \in SensorIds |-> IF s = ScenarioSensor THEN 1 ELSE None]
    /\ inflight = {}
    /\ pc = "down"
    /\ idx = 1
    /\ saved_state = NoEntries
    /\ cursors = NoEntries
    /\ resolvedBy = [s \in SensorIds |-> Unresolved]
    /\ startCursor = [s \in SensorIds |-> Absent]
    /\ written = {}
    /\ dup = FALSE
    /\ MediaIdle
    /\ Deployed

\* The page query.get() returns when fewer records than the limit of 100
\* follow the cursor: all of them.
WholePage ==
    IF cursors[Sensor] = None THEN Keys(Sensor)
    ELSE start_at(Keys(Sensor), cursors[Sensor])

\* One run of the bridge on this source: startup, then polling cycles that
\* get whole pages.
ScenarioNext ==
    \/ Start
    \/ \E queryOk, fetchOk \in BOOLEAN : Resolve(queryOk, fetchOk)
    \/ InitialSave("ok")
    \/ PollPage(WholePage, "ok")

ScenarioSpec == ScenarioInit /\ [][ScenarioNext]_vars

\* =========================================================== claims ====

\* C1 (as claimed). When the sink write of a telemetry cycle fails, whether
\* write_api.write raises or the batching writer later fails to flush a
\* point, the sensor's cursor in memory and in the state file has not moved
\* to or past the records of that write, so that the next fetch returns
\* them again.
C1_WriteFailureKeepsCursor ==
    [][/\ PollWriteRaise => (cursors' = cursors /\ file' = file)
       /\ \A k \in 1..MaxKey :
            (pc = "poll" /\ FlushFail(k))
                => (cursors'[SensorOf(k)] < k /\ file'[SensorOf(k)] < k)]_vars

\* C2 (as claimed). The cursor of a sensor, in memory and in the state file,
\* moves past a record only after the sink has acknowledged the write of
\* that record's point: every point written in this run that the cursor
\* has reached is stored in the sink.
C2_CursorOnlyAfterAck ==
    pc = "poll" =>
        \A k \in written :
            (cursors[SensorOf(k)] >= k \/ file[SensorOf(k)] >= k)
                => k \in sink

\* C3. Cursor monotonicity: a step of the polling loop leaves the cursor of
\* every sensor as it is, or sets it to a key of the page fetched for the
\* old cursor that is greater than the old cursor.
C3_CursorMonotone ==
    [][(pc = "poll" /\ pc' = "poll") =>
          \A s \in SensorIds :
              \/ cursors'[s] = cursors[s]
              \/ /\ cursors'[s] \in Snapshot(s, cursors[s])
                 /\ cursors'[s] > cursors[s]]_vars

\* C3 witness: a sensor that started at a key has advanced to a later key.
C3_Witness ==
    /\ pc = "poll"
    /\ \E s \in SensorIds :
           startCursor[s] # None /\ cursors[s] > startCursor[s]

\* C4 (as claimed). A poison record never stalls the cursor: whenever the
\* source of a sensor holds a key greater than the sensor's cursor, the
\* cursor eventually reaches that key (source reads and sink writes
\* eventually succeeding).
C4_PoisonNeverStalls ==
    \A s \in SensorIds, k \in 1..MaxKey :
        (pc = "poll" /\ k \in Keys(s) /\ cursors[s] # None /\ cursors[s] < k)
            ~> (cursors[s] >= k)

\* C5 (as claimed). After a cycle in which no call fails and whose page
\* holds a key other than the cursor, the cursor is the greatest key of
\* the page, however many records of the page yielded no point.
C5_CursorReachesPageEnd ==
    [][(PollOk("ok") /\ Processed(Page, cursors[Sensor]) # {})
          => cursors'[Sensor] = Max(Page)]_vars

\* C6 (as claimed). No record is lost across a restart: after a restart
\* that resolved the cursor from the state file or from the sink, a
\* well-formed record above every key delivered so far is never behind the
\* cursor unless its point is stored or still queued for the sink.
C6_NoRecordLostAcrossRestart ==
    \A s \in SensorIds :
        (pc = "poll" /\ resolvedBy[s] \in {"file", "sink"}) =>
            \A k \in Keys(s) :
                (/\ YieldsPoint(k)
                 /\ k <= cursors[s]
                 /\ sink \cap Keys(s) # {}
                 /\ \A j \in sink \cap Keys(s) : j < k)
                    => k \in inflight

\* C7. No reprocessing within a run: no key is handed to the sink twice in
\* one process run, and the record a sensor's cursor started at is never
\* written by that run.
C7_AtMostOnce ==
    /\ ~dup
    /\ \A s \in SensorIds : startCursor[s] \notin written

\* C7 witness: two successive cycles of a sensor that started at a key
\* each wrote a record, the second with the first one's key as its cursor.
C7_Witness ==
    /\ pc = "poll"
    /\ \E s \in SensorIds, k1 \in written, k2 \in written :
           /\ SensorOf(k1) = s /\ SensorOf(k2) = s
           /\ startCursor[s] # None
           /\ k1 < k2
           /\ cursors[s] = k2

\* C8. Recovery precedence: a sensor with an entry in the state file is
\* resolved to that entry, by the file branch alone (no InfluxDB query, no
\* Firebase fetch).
C8_LocalFileWins ==
    pc = "init" =>
        \A s \in SensorIds :
            (cursors[s] # Absent /\ saved_state[s] # Absent)
                => (cursors[s] = saved_state[s] /\ resolvedBy[s] = "file")

\* C8 witness: a sensor resolved from the state file while the sink's last
\* key for it is another key.
C8_Witness ==
    /\ pc = "init"
    /\ \E s \in SensorIds :
           /\ resolvedBy[s] = "file"
           /\ cursors[s] # None
           /\ sinkLatest[s] # None
           /\ sinkLatest[s] # cursors[s]

\* C9 (as claimed). A sensor without state-file entry whose last point is
\* in the sink's window is resolved to that point's fb_key, without
\* consulting the source.
C9_SinkRecoveryAsClaimed ==
    [][\A queryOk \in BOOLEAN, fetchOk \in BOOLEAN :
          (/\ Resolve(queryOk, fetchOk)
           /\ saved_state[Sensor] = Absent
           /\ sinkLatest[Sensor] # None)
              => (/\ cursors'[Sensor] = sinkLatest[Sensor]
                  /\ resolvedBy'[Sensor] = "sink")]_vars

\* C9 (amended). The same, provided the InfluxDB query returns: a query
\* that raises counts as "no sink data" and resolution goes on to the
\* fresh start.
C9_SinkRecovery ==
    [][\A fetchOk \in BOOLEAN :
          (/\ Resolve(TRUE, fetchOk)
           /\ saved_state[Sensor] = Absent
           /\ sinkLatest[Sensor] # None)
              => (/\ cursors'[Sensor] = sinkLatest[Sensor]
                  /\ resolvedBy'[Sensor] = "sink")]_vars

\* C9 witness: a sensor resolved from the sink to a key that is not the
\* newest key of the source.
C9_Witness ==
    /\ pc = "init"
    /\ \E s \in SensorIds :
           /\ resolvedBy[s] = "sink"
           /\ cursors[s] = sinkLatest[s]
           /\ NewestKey(s) # cursors[s]

\* C10 (as claimed). A sensor without state-file entry and without sink
\* data is resolved to the newest key of the source (null when the source
\* is empty), and no record at or below that key is written by the run.
C10_FreshStartAsClaimed ==
    [][/\ \A queryOk \in BOOLEAN, fetchOk \in BOOLEAN :
            (/\ Resolve(queryOk, fetchOk)
             /\ saved_state[Sensor] = Absent
             /\ sinkLatest[Sensor] = None)
                => cursors'[Sensor] = NewestKey(Sensor)
       /\ \A k \in written' :
            resolvedBy'[SensorOf(k)] \in {"source", "source_error"}
                => k > startCursor'[SensorOf(k)]]_vars

\* C10 (amended). The same, provided the Firebase fetch of the fresh start
\* returns; the records not replayed are those present when the fetch was
\* made, for the rest of that process run.
C10_FreshStart ==
    [][/\ \A queryOk \in BOOLEAN :
            (/\ Resolve(queryOk, TRUE)
             /\ saved_state[Sensor] = Absent
             /\ sinkLatest[Sensor] = None)
                => cursors'[Sensor] = NewestKey(Sensor)
       /\ \A k \in written' :
            resolvedBy'[SensorOf(k)] = "source"
                => k > startCursor'[SensorOf(k)]]_vars

\* C10 witness: a sensor that made a fresh start at an existing key has
\* since written a record.
C10_Witness ==
    /\ pc = "poll"
    /\ \E s \in SensorIds :
           /\ resolvedBy[s] = "source"
           /\ startCursor[s] # None
           /\ \E k \in written : SensorOf(k) = s

\* C11 (as claimed). Startup ordering: when the polling loop is entered,
\* the cursor of every sensor is resolved and the state file holds the full
\* cursor map.
C11_StartupOrderAsClaimed ==
    [][(pc = "init" /\ pc' = "poll") =>
          /\ \A s \in SensorIds : cursors[s] # Absent
          /\ file' = cursors]_vars

\* C11 (amended). When the polling loop is entered the cursor of every
\* sensor is resolved and save_state has been called with the full map; the
\* state file holds that map when the write did not fail. No step of the
\* polling loop is taken before.
C11_StartupOrder ==
    [][/\ (pc = "init" /\ pc' = "poll") =>
            /\ \A s \in SensorIds : cursors[s] # Absent
            /\ cursors' = cursors
            /\ \E outcome \in SaveOutcomes : file' = save_state(cursors, outcome)
            /\ InitialSave("ok") => file' = cursors
       /\ PollStep => \A s \in SensorIds : cursors[s] # Absent]_vars

\* C11 witness: the loop is entered, nothing is polled yet, and the file
\* holds the map with a cursor resolved to a key.
C11_Witness ==
    /\ pc = "poll"
    /\ written = {}
    /\ file = cursors
    /\ \E s \in SensorIds : cursors[s] \notin {None, Absent}

\* C12 (as claimed). Whenever the polling loop has finished a sensor's
\* cycle, the cursor map in the state file equals the map in memory.
C12_FileEqualsMemoryAsClaimed ==
    pc = "poll" => file = cursors

\* C12 (amended). After a cycle that advanced a cursor and whose write of
\* the state file did not fail, the file holds the whole map in memory,
\* whatever it held before; a cycle that advances no cursor leaves the file
\* alone.
C12_FileFollowsAdvance ==
    [][/\ (PollOk("ok") /\ cursors' # cursors) => file' = cursors'
       /\ (PollStep /\ cursors' = cursors) => file' = file]_vars

\* C12 witness: a cycle has advanced a cursor and the file holds the map,
\* with an entry for each sensor.
C12_Witness ==
    /\ pc = "poll"
    /\ file = cursors
    /\ \E s \in SensorIds :
           /\ cursors[s] # startCursor[s]
           /\ \E k \in written : SensorOf(k) = s

\* C13 (as claimed). Per-sensor error isolation: a failure while polling
\* a sensor (the read raises, the page is not a mapping, the write fails)
\* leaves that sensor's cursor where it was before the failing write, in
\* memory and in the state file, and the loop goes on with the next sensor
\* of the same pass.
C13_ErrorIsolation ==
    [][/\ (PollReadError \/ PollNotMapping \/ PollWriteRaise) =>
            /\ cursors' = cursors
            /\ file' = file
            /\ pc' = "poll"
            /\ idx < Len(SENSORS) => idx' = idx + 1
       /\ \A k \in 1..MaxKey :
            (pc = "poll" /\ FlushFail(k) /\ k \in written) =>
                /\ cursors'[SensorOf(k)] # k
                /\ pc' = "poll" /\ idx' = idx]_vars

\* C14. The polling loop is not ended by a failure in a sensor's iteration:
\* every sensor is polled again and again.
C14_LoopNeverTerminates ==
    \A i \in 1..Len(SENSORS) : []<><<PollStep /\ idx = i>>_vars

\* C14 witness: the loop is running, back at the first sensor, with a state
\* file that a failed write left behind the cursors.
C14_Witness ==
    /\ pc = "poll"
    /\ idx = 1
    /\ written # {}
    /\ file # cursors

\* A step in which the poller scans the view it is at (MediaScan or
\* MediaScanRaises, whatever fails in it): the thread is at a scan and the
\* step is neither an upload nor a step of the telemetry side.
ScanStep ==
    /\ mpc = "scan"
    /\ UNCHANGED <<store, imgPoints>>
    /\ UNCHANGED telemetryVars

\* C15. Media dedup: a scan of a (sensor, view) neither makes public nor
\* builds a point for a blob name that was in the view's seen-set when the
\* scan began, and the write that follows stores points only for the names
\* of that scan.
C15_SeenNotReingested ==
    [][/\ ScanStep =>
            /\ made_public' \cap _seen_blobs[Track] = {}
            /\ \A pt \in new_points' : NameOf(pt) \notin _seen_blobs[Track]
       /\ MediaWrite =>
            imgPoints' \ imgPoints \subseteq
                {<<Track, NameOf(pt)>> : pt \in new_points}]_vars

\* C15 witness: a later scan of a view has made another blob public and
\* built its point, while a blob of the view that is in the seen-set, with
\* its point written before, is not part of that scan's batch.
C15_Witness ==
    /\ mpc = "write"
    /\ \E n \in _seen_blobs[Track] :
           /\ <<Track, n>> \in imgPoints
           /\ n \notin made_public
           /\ PointFor(n) \notin new_points
    /\ new_points # {}

\* C16 (as claimed). Media retry after write failure: when the batch write
\* of a view's points raises, every blob of the batch is out of the view's
\* seen-set afterwards.
C16_WriteFailureForgets ==
    [][MediaWriteRaise =>
          \A pt \in new_points : NameOf(pt) \notin _seen_blobs'[Track]]_vars

\* C17. A blob name enters the seen-set in a scan only if make_public
\* succeeded on it in that scan, and it is there before the batch write is
\* tried, whatever the write's outcome; a candidate whose make_public
\* did not succeed is not put in the seen-set and gets no point, so that
\* it is still a candidate after the scan.
C17_SeenAfterPublish ==
    [][/\ ScanStep =>
            /\ _seen_blobs'[Track] \ _seen_blobs[Track] \subseteq made_public'
            /\ \A n \in Names :
                 (n \notin _seen_blobs[Track] /\ n \notin made_public') =>
                     /\ n \notin _seen_blobs'[Track]
                     /\ PointFor(n) \notin new_points'
       /\ (MediaWrite \/ MediaWriteRaise) =>
            \A pt \in new_points :
                NameOf(pt) \in _seen_blobs[Track] \cap made_public]_vars

\* C17 witness: a scan has put a blob in the seen-set and built its point,
\* the write is still to come, and another image of the view is listed in
\* the bucket without being in the seen-set.
C17_Witness ==
    /\ mpc = "write"
    /\ \E n \in Names, m \in Names :
           /\ PointFor(n) \in new_points
           /\ n \in _seen_blobs[Track]
           /\ store[Track][m] = "image"
           /\ m \notin _seen_blobs[Track]

\* C18 (as claimed). Media error isolation: whatever fails while a (sensor,
\* view) is processed, the poller goes on within the same cycle: after a
\* step at a view that is not the last one, either the write of that view
\* is due or the poller is at the next view.
C18_MediaIsolation ==
    [][(ScanStep \/ MediaWrite \/ MediaWriteRaise) =>
          (midx < Len(TRACKS) =>
              \/ mpc' = "write" /\ midx' = midx
              \/ mpc' = "scan" /\ midx' = midx + 1)]_vars

\* C19 (as claimed). Once the startup of the bridge process is complete,
\* the telemetry loop runs its cycles and the media loop runs its cycles.
C19_BothLoopsRun ==
    /\ \A i \in 1..Len(SENSORS) : []<>(pc = "poll" /\ idx = i)
    /\ (pc = "poll") ~> (mpc \in {"scan", "write"})

\* C20. Disjoint state: a step of the telemetry thread leaves the poller's
\* thread state, its seen-set and the image points as they are; a step of
\* the poller thread leaves the cursors, the state file, the startup state
\* and the telemetry points, queued or stored, as they are.
C20_DisjointState ==
    [][/\ TelemetryStep =>
            UNCHANGED <<mpc, midx, _seen_blobs, new_points, made_public,
                        imgPoints, store>>
       /\ MediaStep =>
            UNCHANGED <<pc, idx, saved_state, cursors, file, inflight, sink,
                        sinkLatest, written, log>>]_vars

\* C20 witness: both threads are in the middle of a pass, the telemetry
\* loop having written a record and the poller an image point.
C20_Witness ==
    /\ pc = "poll"
    /\ idx = 2
    /\ written # {}
    /\ mpc = "write"
    /\ imgPoints # {}
    /\ \E s \in SensorIds : cursors[s] \notin {None, Absent}

FlaggedOff ==
    {all_sensors[i].id : i \in {j \in 1..Len(all_sensors) :
                                   all_sensors[j].enabled # "true"}}
FlaggedOffTracks ==
    UNION {{all_sensors[i].views[v] : v \in 1..Len(all_sensors[i].views)} :
              i \in {j \in 1..Len(all_sensors) :
                        all_sensors[j].enabled # "true"}}

\* C22. A sensor whose configuration has enabled = false, or no enabled
\* entry, is left out: no cursor is resolved or persisted for it, the
\* telemetry loop never fetches its group, no view of it is scanned, and
\* neither loop writes a point tagged with it.
C22_DisabledExcluded ==
    [][/\ \A s \in FlaggedOff :
              /\ cursors'[s] = Absent
              /\ file'[s] \in {Absent, file[s]}
              /\ pc' = "poll" => Sensor' # s
              /\ \A k \in written' \cup inflight' : SensorOf(k)' # s
       /\ \A t \in FlaggedOffTracks :
              /\ mpc' \in {"scan", "write"} => Track' # t
              /\ \A n \in Names : <<t, n>> \notin imgPoints']_vars

\* The telemetry loop has written points and the image poller scans the
\* enabled views while records and images of a sensor that is not enabled
\* wait at the source and in the bucket.
C22_Witness ==
    /\ pc = "poll"
    /\ written # {}
    /\ mpc = "scan" /\ midx = Len(TRACKS)
    /\ \E s \in FlaggedOff : Keys(s) # {}
    /\ \E t \in FlaggedOffTracks : \E n \in Names : store[t][n] = "image"
    /\ \A s \in SensorIds : file[s] # Absent

\* The results of the calls made so far.
Outs == {ret[i].out : i \in 1..Len(ret)}

\* C23. clean_sensor_data never raises past its boundary: for every key,
\* every raw record (a mapping, a scalar, a list, null) and every sensor
\* configuration the call returns, either a point or the failure value.
C23_NeverRaises ==
    call.fn = "clean_sensor_data" =>
        \A out \in Outs : out.t \in {"point", "none"}

\* A call on a mapping record returned the failure value: an exception was
\* raised inside and caught at the boundary.
C23_Witness ==
    /\ call.fn = "clean_sensor_data"
    /\ call.data.t = "dict"
    /\ call.key.t = "str"
    /\ PyNone \in Outs

\* The entry of a record under one of the names, None when it has none.
Entry(data, names) ==
    IF \E i \in 1..Len(names) : names[i] \in DOMAIN data.items
    THEN data.items[names[CHOOSE i \in 1..Len(names) :
                              names[i] \in DOMAIN data.items]]
    ELSE PyNone

\* C24 (as claimed). For every record that is a mapping clean_sensor_data
\* returns a point with distance, battery, solar and source key present,
\* with the default (0, 0.0, 0.0) in place of a missing or unparseable
\* value: no record is dropped for missing or malformed fields, the failure
\* value is returned only for a record that is not a mapping.
C24_DefaultsForMalformed ==
    (call.fn = "clean_sensor_data" /\ call.key.t = "str") =>
        \A out \in Outs :
            /\ out.t = "point" <=> call.data.t = "dict"
            /\ out.t = "point" =>
                  /\ out.dist_cm.t = "int"
                  /\ out.bat_volt.t = "float"
                  /\ out.solar_volt.t = "float"
                  /\ out.fb_key = <<"k2">>
                  /\ Entry(call.data, _BATTERY_FALLBACK_FIELDS).t
                         \notin {"int", "float", "bool", "str"}
                       => out.bat_volt = PyFloat(FALSE, 0, 0)
                  /\ Entry(call.data, _SOLAR_FALLBACK_FIELDS).t
                         \notin {"int", "float", "bool", "str"}
                       => out.solar_volt = PyFloat(FALSE, 0, 0)

\* The names of a chain before position i hold nothing in the record.
NothingBefore(data, names, i) ==
    \A j \in 1..(i - 1) :
        names[j] \notin DOMAIN data.items \/ data.items[names[j]] = PyNone

\* The first non-null entry of the record along the chain, None when there
\* is none.
AlongChain(data, names, out) ==
    \/ /\ out = PyNone
       /\ NothingBefore(data, names, Len(names) + 1)
    \/ \E i \in 1..Len(names) :
          /\ names[i] \in DOMAIN data.items
          /\ data.items[names[i]] = out
          /\ out # PyNone
          /\ NothingBefore(data, names, i)

\* C25 (as claimed). A logical field resolves to the record's value under
\* the configured name when that name is present and non-null in the
\* record, otherwise to the first non-null value along the fallback chain,
\* otherwise to nothing (the type default): a configured name that is
\* absent from the record still falls back to the chain.
C25_FallsBackToChainAsClaimed ==
    call.fn = "_get_field" =>
        \A out \in Outs :
            IF /\ call.field_name \in DOMAIN call.data.items
               /\ call.data.items[call.field_name] # PyNone
            THEN out = call.data.items[call.field_name]
            ELSE AlongChain(call.data, call.fallbacks, out)

\* C25 (amended). When a name is configured the field resolves to the
\* record's value under that name and to nothing (the type default) when
\* the record has no such entry or a null one; the fallback chain is
\* consulted only when no name is configured, and then gives its first
\* non-null value, or nothing.
C25_ChainOnlyWithoutName ==
    call.fn = "_get_field" =>
        \A out \in Outs :
            IF call.field_name # NoName
            THEN IF call.field_name \in DOMAIN call.data.items
                 THEN out = call.data.items[call.field_name]
                 ELSE out = PyNone
            ELSE AlongChain(call.data, call.fallbacks, out)

\* A name is configured, the record lacks it but has a value under a name
\* of the chain: the call returned nothing.
C25_Witness ==
    /\ call.fn = "_get_field"
    /\ call.field_name = "lvl"
    /\ "lvl" \notin DOMAIN call.data.items
    /\ "dist_cm" \in DOMAIN call.data.items
    /\ call.data.items["dist_cm"] = PyInt(42)
    /\ Outs = {PyNone}

\* C26 (as claimed). Normalization is idempotent: normalizing the same key,
\* record and configuration twice gives identical points, also for a record
\* whose timestamp field is missing or unparseable.
C26_IdempotentAsClaimed ==
    call.fn = "clean_sensor_data" =>
        \A i, j \in 1..Len(ret) : ret[i].out = ret[j].out

\* The record has a timestamp entry that is not null and that the
\* configured format can read: a string of one of the ISO patterns for
\* "iso", else something float() converts to a finite or NaN number.
UsableTimestamp ==
    /\ call.data.t = "dict"
    /\ "timestamp" \in DOMAIN call.data.items
    /\ LET v == call.data.items["timestamp"]
       IN /\ v # PyNone
          /\ IF CfgGet(call.sensor_cfg, "timestamp_format", "epoch_auto") = "iso"
             THEN v.t = "str" /\ Shape(v.c) \in IsoShapes
             ELSE ~IsRaise(float(v)) /\ float(v).t # "inf"

\* A result without its time.
Timeless(out) ==
    IF out.t = "point" THEN [out EXCEPT !.time = PyNone] ELSE out

\* C26 (amended). Normalizing the same key, record and configuration twice
\* gives identical points when the record's timestamp field is present and
\* parseable; when it is missing, null or unparseable each call puts the
\* time of the call in the point, and the two points are identical in
\* everything but the timestamp.
C26_IdempotentButClock ==
    call.fn = "clean_sensor_data" =>
        \A i, j \in 1..Len(ret) :
            /\ Timeless(ret[i].out) = Timeless(ret[j].out)
            /\ UsableTimestamp => ret[i].out = ret[j].out

\* A record with a parseable timestamp has been normalized at two
\* different times, each time to a point.
C26_Witness ==
    /\ call.fn = "clean_sensor_data"
    /\ Len(ret) = 2
    /\ ret[1].tick # ret[2].tick
    /\ UsableTimestamp
    /\ ret[1].out.t = "point"
    /\ ret[2].out.t = "point"

\* The integer a number is truncated to, and the one the first run of
\* digits of its decimal string form denotes (the digits before the point,
\* without the sign).
Truncated(x) == PyNum("int", x.neg, x.hi, x.lo, 0)
FirstRunOfNumber(x) == PyNum("int", FALSE, x.hi, x.lo, 0)

\* The integer of the first run of digits of the string form of a value,
\* 0 when it has no digit ("True", "False" and "None" have none).
FirstRun(x) ==
    IF x.t \in {"int", "float"} THEN FirstRunOfNumber(x)
    ELSE IF x.t \in {"str", "list"} /\ re_search_digits(x.c) # <<>>
    THEN IntOfDigits(re_search_digits(x.c))
    ELSE PyInt(0)

\* C28 (as claimed). _parse_distance never fails; null gives 0 in every
\* mode; in mode "string" the result is the integer of the first run of
\* digits of the value's string form ("R0231" gives 231), 0 when there is
\* no digit; in mode "numeric" the value cast to an integer by truncation
\* (42.9 gives 42); in mode "auto" a number is handled as in "numeric" and
\* a string as in "string".
C28_ParseDistanceAsClaimed ==
    call.fn = "_parse_distance" =>
        \A out \in Outs :
            /\ out.t = "int"
            /\ call.raw_dist = PyNone => out = PyInt(0)
            /\ call.encoding = "string" => out = FirstRun(call.raw_dist)
            /\ (call.encoding \in {"numeric", "auto"}
                    /\ call.raw_dist.t \in {"int", "float"})
                  => out = Truncated(call.raw_dist)
            /\ (call.encoding = "auto" /\ call.raw_dist.t = "str")
                  => out = FirstRun(call.raw_dist)

\* The value of a number, in millionths of a second when the number is
\* taken as milliseconds: hi * 10^8 + lo milliseconds and f millionths of
\* one are (hi div 1000, (hi mod 1000) * 10^5 + lo div 1000) seconds and
\* (lo mod 1000) * 1000 + f div 1000 microseconds.
IsThousandthOf(dt, ts) ==
    /\ dt.t = "datetime"
    /\ dt.neg = ts.neg
    /\ dt.hi * 1000 + dt.lo \div 10^5 = ts.hi
    /\ (dt.lo % 10^5) * 1000 + dt.us \div 1000 = ts.lo
    /\ dt.us % 1000 = ts.f \div 1000
\* The same number taken as seconds; a time after year 9999 is refused.
IsSecondsOf(dt, ts) ==
    IF ~ts.neg /\ (\/ ts.hi > MaxTimestamp[1]
                   \/ ts.hi = MaxTimestamp[1] /\ ts.lo > MaxTimestamp[2])
    THEN dt = Raise("ValueError")
    ELSE /\ dt.t = "datetime"
         /\ dt.neg = ts.neg
         /\ dt.hi = ts.hi
         /\ dt.lo = ts.lo
         /\ dt.us = ts.f

\* C29. Under "epoch_auto" a numeric timestamp strictly greater than 1e11
\* is read as milliseconds (divided by 1000) and one less than or equal to
\* 1e11 as seconds; "epoch_ms" always divides by 1000 and "epoch_s" never
\* does.
C29_EpochThreshold ==
    (call.fn = "_parse_timestamp" /\ call.raw_ts.t \in {"int", "float"}) =>
        \A out \in Outs :
            LET ts == call.raw_ts
                above == /\ ~ts.neg
                         /\ \/ ts.hi > 1000
                            \/ ts.hi = 1000 /\ (ts.lo > 0 \/ ts.f > 0)
            IN /\ call.fmt = "epoch_ms" => IsThousandthOf(out, ts)
               /\ call.fmt = "epoch_s" => IsSecondsOf(out, ts)
               /\ (call.fmt = "epoch_auto" /\ above) => IsThousandthOf(out, ts)
               /\ (call.fmt = "epoch_auto" /\ ~above) => IsSecondsOf(out, ts)

\* The value 1e11 itself has been parsed under "epoch_auto": it was read as
\* seconds.
C29_Witness ==
    /\ call.fn = "_parse_timestamp"
    /\ call.fmt = "epoch_auto"
    /\ call.raw_ts = PyNum("int", FALSE, 1000, 0, 0)
    /\ \E out \in Outs : out.t = "datetime" /\ out.hi = 1000 /\ out.lo = 0

\* C27. With the cursor k and the fetched page [k, a, b], a a mapping
\* without a distance field and b a valid record, the cycle issues exactly
\* one batch write with exactly two points, the one of a with distance 0
\* and the one of b, none for k, and sets the cursor of the sensor, in
\* memory and in the file, to b.
C27_PageOfThree ==
    [][/\ (pc = "poll" /\ idx = 1 /\ idx' # 1 /\ cursors[ScenarioSensor] = 1)
          => /\ inflight' = {2, 3}
             /\ written' = {2, 3}
             /\ ~dup'
             /\ cursors'[ScenarioSensor] = 3
             /\ file'[ScenarioSensor] = 3
             /\ \A tick \in Clock :
                   LET pa == clean_sensor_data(KeyA, call.a, call.sensor_cfg, tick)
                       pb == clean_sensor_data(KeyB, call.b, call.sensor_cfg, tick)
                   IN /\ pa.t = "point"
                      /\ pa.dist_cm = PyInt(0)
                      /\ pa.fb_key = <<"k2">>
                      /\ pb.t = "point"
                      /\ pb.fb_key = <<"k3">>
       /\ written' # written => written = {}]_vars

\* The cycle is over: both points are with the writer, the cursor is b.
C27_Witness ==
    /\ call.fn = "scenario"
    /\ "timestamp" \notin DOMAIN call.a.items
    /\ pc = "poll"
    /\ resolvedBy[ScenarioSensor] = "file"
    /\ written = {2, 3}
    /\ cursors[ScenarioSensor] = 3
    /\ file[ScenarioSensor] = 3

\* C30. A cycle of a sensor whose cursor is non-null and whose page holds
\* only the cursor key writes nothing to the sink and leaves the in-memory
\* cursor and the cursor file unchanged.
C30_NoNewData ==
    [][(/\ \E outcome \in SaveOutcomes : PollOk(outcome)
        /\ cursors[Sensor] \notin {None, Absent}
        /\ Page = {cursors[Sensor]})
          => UNCHANGED <<inflight, written, sink, cursors, file>>]_vars

\* The first sensor's turn has passed without a write while its non-null
\* cursor is the only key of its page.
C30_Witness ==
    /\ pc = "poll"
    /\ idx = 2
    /\ cursors[SENSORS[1]] \notin {None, Absent}
    /\ Snapshot(SENSORS[1], cursors[SENSORS[1]]) = {cursors[SENSORS[1]]}
    /\ cursors[SENSORS[1]] = startCursor[SENSORS[1]]
    /\ written = {}
    /\ YieldsPoint(cursors[SENSORS[1]])

\* C31. A cycle of a sensor whose cursor is null gets the newest page of
\* at most PageSize records, hands a point to the writer for every
\* well-formed record of it, and after the write has the greatest key of
\* the page as the cursor; when the source has no record of the sensor
\* the cursor stays null and nothing is written.
C31_NullCursorCycle ==
    [][(/\ \E outcome \in SaveOutcomes : PollOk(outcome)
        /\ cursors[Sensor] = None)
          => LET all == Keys(Sensor)
                 good == {k \in all : YieldsPoint(k)
                             /\ Cardinality({j \in all : j > k}) < PageSize}
             IN /\ good \subseteq inflight'
                /\ inflight' \ inflight \subseteq good
                /\ good # {} => cursors'[Sensor] = Max(all)
                /\ all = {} => /\ cursors'[Sensor] = None
                               /\ UNCHANGED <<inflight, written, file>>]_vars

\* A cycle with a null cursor has written the newest page of a source that
\* holds more records than a page: the oldest record was not written, the
\* cursor is the newest key.
C31_Witness ==
    /\ pc = "poll"
    /\ startCursor[SENSORS[1]] = None
    /\ Cardinality(Keys(SENSORS[1])) > PageSize
    /\ cursors[SENSORS[1]] = Max(Keys(SENSORS[1]))
    /\ written # {}
    /\ \E k \in Keys(SENSORS[1]) : YieldsPoint(k) /\ k \notin written
    /\ \E k \in Keys(SENSORS[1]) : ~YieldsPoint(k)

CreatedOrNow(tick) ==
    IF call.blob.time_created # PyNone THEN call.blob.time_created
    ELSE datetime_now(tick)

\* C33. The time of a pointer record is the timestamp extracted from the
\* filename when the view's timestamp source is "filename", a regex is
\* configured and the extraction succeeds; otherwise the creation time of
\* the blob when it has one; otherwise the current time. A failed
\* extraction (no match, fewer than three groups with a small first group,
\* invalid components) falls back to the creation time and never prevents
\* the record: the call always returns a time.
C33_TimestampOrder ==
    call.fn = "_get_blob_timestamp" =>
        \A i \in 1..Len(ret) :
            LET out == ret[i].out
                configured ==
                    /\ call.timestamp_source = "filename"
                    /\ call.timestamp_regex \notin {PyNone, PyStr(<<>>)}
                ts == _extract_timestamp_from_filename(call.match,
                                                       call.timestamp_format)
                small == /\ call.match.t = "match"
                         /\ Len(call.match.groups) \in 1..2
                         /\ call.timestamp_format = ""
                         /\ call.match.groups[1] = GroupOf(<<"1", "7">>)
            IN /\ out.t = "datetime"
               /\ (configured /\ ts.t = "datetime") => out = ts
               /\ ~(configured /\ ts.t = "datetime")
                     => out = CreatedOrNow(ret[i].tick)
               /\ (call.match = PyNone \/ small)
                     => out = CreatedOrNow(ret[i].tick)

\* The blob n under the prefix of view t that a scan has to leave alone: a
\* directory marker, a name of the seen-set, or a base name the glob of the
\* view does not match when case is ignored.
Unwanted ==
    [t \in ConfiguredTrackKeys, n \in Names, kind \in BlobKinds |->
        LET name == blob_name(n, kind)
        IN \/ name[Len(name)] = "/"
           \/ ~fnmatch(lower(basename(name)), lower(filename_pattern(t)))]
LeftAlone(t, n) ==
    /\ store[t][n] # NoBlob
    /\ n \in _seen_blobs[t] \/ Unwanted[t, n, store[t][n]]

\* C34. A scan of a view neither publishes nor builds a pointer record for
\* a directory marker, a blob of the seen-set or a blob whose base name
\* does not match the glob of the view, case ignored; the pointer records
\* of the view are written in one batch, after which none is left for the
\* view in this cycle; without a new pointer record no write is issued.
C34_FilterAndBatch ==
    [][/\ ScanStep =>
            /\ \A n \in Names :
                  LeftAlone(Track, n) =>
                      /\ n \notin made_public'
                      /\ PointFor(n) \notin new_points'
            /\ mpc' = "write" <=> new_points' # {}
       /\ imgPoints' # imgPoints =>
            /\ mpc = "write"
            /\ imgPoints' =
                  imgPoints \cup {<<Track, NameOf(pt)>> : pt \in new_points}
            /\ new_points' = {}
            /\ mpc' = "scan"
            /\ midx' = NextTrack]_vars

\* One batch with two pointer records is due for a view configured with
\* "*.JPG", one of them for a blob named in lower case, while the view
\* before it holds a directory marker and a .png file that got none.
C34_Witness ==
    /\ mpc = "write"
    /\ midx = 2
    /\ Cardinality(new_points) = 2
    /\ \E n \in Names :
           /\ PointFor(n) \in new_points
           /\ store[Track][n] = "image"
           /\ PrefixOf(n) = "yesterday"
    /\ \A n \in Names :
           /\ store[TRACKS[1]][n] = "other"
           /\ <<TRACKS[1], n>> \notin imgPoints
           /\ n \notin _seen_blobs[TRACKS[1]]

\* C35. Every blob name in the seen-set of a view has a pointer record
\* that was written, or is in the batch the poller is about to write for
\* that view: whatever failed in a cycle, no name stays in a seen-set
\* without a delivered pointer record.
C35_SeenImpliesDelivered ==
    \A t \in TrackKeys : \A n \in _seen_blobs[t] :
        \/ <<t, n>> \in imgPoints
        \/ mpc = "write" /\ t = Track /\ PointFor(n) \in new_points

\* C36. Whatever the state file (absent, unreadable, with entries for some
\* sensors only), the answer of the sink query (a key, nothing, an error)
\* and that of the source fetch (records, none, an error), the startup
\* comes to the polling loop and stays in it, every enabled sensor having
\* a cursor that is a key or null.
C36_ResolutionCompletes ==
    <>[](/\ pc = "poll"
         /\ \A s \in SensorIds : cursors[s] \in {None} \cup 1..MaxKey)

\* The loop runs after a start that found an unreadable state file and
\* could not save a new one, with one sensor resolved from the sink and
\* one left without a cursor by a failed fetch.
C36_Witness ==
    /\ pc = "poll"
    /\ file = Unreadable
    /\ \E s \in SensorIds : resolvedBy[s] = "sink" /\ cursors[s] \in Keys(s)
    /\ \E s \in SensorIds :
           resolvedBy[s] = "source_error" /\ cursors[s] = None /\ Keys(s) # {}

\* C37 (as claimed). A cycle of sensor s leaves the in-memory cursors of
\* the other sensors unchanged, and after a cycle that advanced the cursor
\* of s the state file holds for every other sensor the value it held
\* before.
C37_FrameAsClaimed ==
    [][PollStep =>
          \A o \in SensorIds \ {Sensor} :
              /\ cursors'[o] = cursors[o]
              /\ cursors' # cursors => file'[o] = file[o]]_vars

\* C37 (amended). A cycle of sensor s leaves the in-memory cursors of the
\* other sensors unchanged; when the write of the state file after the
\* advance succeeds, the file holds for every other sensor its unchanged
\* in-memory cursor, which is the value the file held before when file and
\* memory agreed; when that write fails, the file keeps its content or is
\* left without a readable entry.
C37_FrameEffect ==
    [][PollStep =>
          /\ \A o \in SensorIds \ {Sensor} :
                /\ cursors'[o] = cursors[o]
                /\ (PollOk("ok") /\ cursors' # cursors) => file'[o] = cursors[o]
                /\ (PollOk("ok") /\ cursors' # cursors /\ file = cursors)
                      => file'[o] = file[o]
          /\ file' \in {file, cursors', NoEntries}]_vars

\* The cursor of the first sensor has advanced and was saved while the
\* second sensor has a key as its cursor, in memory and in the file.
C37_Witness ==
    /\ pc = "poll"
    /\ idx = 2
    /\ cursors[SENSORS[1]] # startCursor[SENSORS[1]]
    /\ cursors[SENSORS[2]] \in Keys(SENSORS[2])
    /\ file[SENSORS[1]] = cursors[SENSORS[1]]
    /\ file[SENSORS[2]] = cursors[SENSORS[2]]
====
